---- MODULE Spec2Model ----
(***************************************************************************)
(* A model of the session orchestrator and local risk-signal engine of     *)
(* src/src/App.tsx (component NativeConsole).                              *)
(*                                                                         *)
(* Conventions                                                             *)
(*  - time is in milliseconds, as Date.now() gives it; an ISO timestamp    *)
(*    (new Date().toISOString(), read back with new Date(ts).getTime())    *)
(*    keeps millisecond precision, so a timestamp is the integer it was    *)
(*    made from;                                                           *)
(*  - a confidence is in hundredths (0.62 is 62);                          *)
(*  - null is the empty sequence, a non-null value v is <<v>>;             *)
(*  - a text is a sequence of characters (one-character strings; a         *)
(*    non-ASCII character is written "U+XXXX");                            *)
(*  - the cue, reason, action, language and baselineReference fields of a  *)
(*    RiskSignal are carried unchanged and read by no rule: a stored       *)
(*    signal keeps id, type, level, confidence, timestamp and source.      *)
(***************************************************************************)
EXTENDS Integers, Sequences, FiniteSets, TLC

VARIABLES
    now,                  \* Date.now()
    riskGuardEnabled,     \* useState riskGuardEnabled
    riskCooldownByType,   \* useRef riskCooldownByType
    currentRisk,          \* useState currentRisk (null is <<>>)
    riskHistory,          \* useState riskHistory, newest first
    riskSeq,              \* number of risk ids created so far (createRiskId)
    suggestions,          \* useState suggestions, newest first
    formattedContents,    \* useState formattedContents, newest first
    autoDetectedBehavior, \* useState autoDetectedBehavior (null is <<>>)
    autoDetectedReason,   \* useState autoDetectedReason (null is <<>>)
    events,               \* number of server events handled so far
    lastToolCall,         \* the batch the toolcall handler received last
    lastToolResponse,     \* what it passed to client.sendToolResponse
    sendCalls,            \* sendToolResponse calls made by the last handler run
    lastApplied,          \* <<[signal, accepted]>> of the applyRiskSignal calls of the last handler run
    lastDetect,           \* <<[text, result]>> of the detectHeuristicRisk calls of the last handler run
    mounted,              \* the first render's effects have run
    activeMode,           \* useState activeMode (null is <<>>)
    sourceLanguage,       \* useState sourceLanguage (the language id)
    targetLanguage,       \* useState targetLanguage (the language id)
    activeVoice,          \* useState activeVoice
    searchEnabled,        \* useState searchEnabled
    reconnectGuardRef,    \* useRef reconnectGuardRef ("" is <<>>)
    connected,            \* useLiveAPIContext().connected as of the last render
    healthConnected,      \* sessionHealth.connected
    reconnecting,         \* sessionHealth.reconnecting
    lastError,            \* sessionHealth.lastError (null is <<>>)
    permVision,           \* sessionHealth.permissions.vision
    liveConnected,        \* the transport: a session is open
    callbackStale,        \* the context has a new config: the connect callback of the next render is a new one
    tasks,                \* the async runs of the reconnect effect, toggleConnection and retrySession
    effectTask,           \* the task the last run of the reconnect effect started (0: none)
    lastPass,             \* the last run of the reconnect effect: what it read and the calls it made
    configChanges,        \* configuration changes made so far
    reconcilerDisconnects,\* disconnect() calls made by the reconnect effect
    reconcilerConnects,   \* connect() calls made by the reconnect effect
    transportFailed,      \* a connect() or disconnect() call was rejected
    visionEnabled,        \* useState visionEnabled
    visualSource,         \* useState visualSource
    activeStream,         \* useState activeStream (null is <<>>, else the source of the stream)
    webcamOpen,           \* useWebcam: the camera's device handle is open
    screenOpen,           \* useScreenCapture: the screen's device handle is open
    visionTasks,          \* the turnOnVision calls in flight
    visionOps,            \* visual toggles and source changes made so far
    micEnabled,           \* useState micEnabled
    permMic,              \* sessionHealth.permissions.mic
    micProbes,            \* getUserMedia probes of enableMic in flight: what follows each
    micOps,               \* mic toggles made so far
    selectedSceneId,      \* useState selectedSceneId
    sceneContext,         \* useState sceneContext
    sceneOps,             \* scene presets selected so far
    recorderOn,           \* the audio recorder holds the microphone and produces chunks
    recorderStarts,       \* the startRecorder runs awaiting audioRecorder.start()
    dataListener,         \* the onData listener of the audio effect's last run is on the recorder
    audioDeps,            \* connected and micEnabled as the audio effect's last run read them
    lastChunk,            \* the state in which the last audio chunk went to the session
    micDenied,            \* the state the last permission-denied microphone failure left (none: <<>>)
    frameDeps,            \* connected, visionEnabled, activeStream as the frame effect's last run read them
    frameLoops,           \* the sendFrame callbacks scheduled, one per run of the frame effect
    srcObject,            \* videoRef.current.srcObject (null is <<>>)
    videoDims,            \* the video element has the dimensions of its stream
    canvasCtx,            \* frameCanvasRef.current.getContext("2d") gives a context
    lastFrame,            \* the state in which the last video frame went to the session
    frameTicks            \* steps of the frame clock made so far

riskVars == <<now, riskGuardEnabled, riskCooldownByType, currentRisk, riskHistory,
              riskSeq, suggestions, formattedContents, autoDetectedBehavior,
              autoDetectedReason, events, lastToolCall, lastToolResponse, sendCalls,
              lastApplied, lastDetect>>

configVars == <<activeMode, sourceLanguage, targetLanguage, activeVoice, searchEnabled>>

sessionVars == <<reconnectGuardRef, connected, healthConnected, reconnecting, liveConnected,
                 callbackStale, tasks, effectTask, lastPass, configChanges, reconcilerDisconnects,
                 reconcilerConnects, transportFailed>>

visionVars == <<visionEnabled, visualSource, activeStream, webcamOpen, screenOpen,
                visionTasks, visionOps, permVision>>

micVars == <<micEnabled, permMic, micProbes, micOps>>

sceneVars == <<selectedSceneId, sceneContext, sceneOps>>

audioVars == <<recorderOn, recorderStarts, dataListener, audioDeps, lastChunk, micDenied>>

frameVars == <<frameDeps, frameLoops, srcObject, videoDims, canvasCtx, lastFrame, frameTicks>>

mediaVars == <<audioVars, frameVars>>

vars == <<riskVars, mounted, configVars, sessionVars, lastError, visionVars, micVars,
          sceneVars, mediaVars>>

(***************************************************************************)
(* Bounds of the model.                                                    *)
(***************************************************************************)
StartMs == 450000      \* Date.now() when the component mounts
TickMs == 9000         \* the clock advances in steps of TickMs
MaxTicks == 5          \* clock steps in a run
MaxEvents == 2         \* server events (toolcall, content) in a run of the risk engine
MaxToolEvents == 1     \* tool-call batches in a run of the tool-call handler
MaxBatch == 2          \* invocations in one tool-call batch
MaxConfigChanges == 2  \* configuration changes in a run
MaxTasks == 2          \* connect/disconnect runs started in a run
MaxVisionOps == 3      \* visual toggles and source changes in a run
MaxMicOps == 2         \* mic toggles in a run
MaxSceneOps == 2       \* scene presets selected in a run
FrameTickMs == 500     \* one step of the frame clock
MaxFrameTicks == 3     \* steps of the frame clock in a run

(***************************************************************************)
(* Program constants.                                                      *)
(***************************************************************************)
\* DEMO_SCENES; the script hint of a scene is a text of its own
DEMO_SCENES ==
    << [id |-> "scene-a-guide", mode |-> "GUIDE", sourceLanguage |-> "kn-IN",
        targetLanguage |-> "hi-IN", requiresSearch |-> TRUE, requiresVision |-> TRUE,
        scriptHint |-> "Guide mode"],
       [id |-> "scene-b-echo", mode |-> "ECHO", sourceLanguage |-> "kn-IN",
        targetLanguage |-> "hi-IN", requiresSearch |-> FALSE, requiresVision |-> FALSE,
        scriptHint |-> "Echo mode"],
       [id |-> "scene-c-bridge", mode |-> "BRIDGE", sourceLanguage |-> "hi-IN",
        targetLanguage |-> "kn-IN", requiresSearch |-> FALSE, requiresVision |-> FALSE,
        scriptHint |-> "Bridge mode"],
       [id |-> "scene-shield", mode |-> "SHIELD", sourceLanguage |-> "kn-IN",
        targetLanguage |-> "hi-IN", requiresSearch |-> TRUE, requiresVision |-> TRUE,
        scriptHint |-> "Shield mode"],
       [id |-> "scene-auto", mode |-> "AUTO", sourceLanguage |-> "kn-IN",
        targetLanguage |-> "hi-IN", requiresSearch |-> TRUE, requiresVision |-> TRUE,
        scriptHint |-> "Auto mode"] >>

RISK_FUNCTION_NAME == "emit_risk_signal"
SUGGESTION_FUNCTION_NAME == "emit_suggestion"
MODE_SIGNAL_FUNCTION_NAME == "emit_mode_signal"
FORMATTED_CONTENT_FUNCTION_NAME == "emit_formatted_content"

RiskTypes == {"price", "misinformation", "urgency"}
RiskLevels == {"low", "medium", "high"}

RISK_LEVEL_PRIORITY == [low |-> 1, medium |-> 2, high |-> 3]

EnabledTypes == {"price", "misinformation", "urgency"}
MinConfidenceForMedium == 62
MinConfidenceForHigh == 78
CooldownMs == 18000
ProtectionMs == 45000
HistoryCap == 24
SuggestionCap == 20
FormattedCap == 10
FrameIntervalMs == 1000

(***************************************************************************)
(* Sequence helpers.                                                       *)
(***************************************************************************)
Take(s, n) == SubSeq(s, 1, IF Len(s) < n THEN Len(s) ELSE n)

Range(s) == {s[i] : i \in 1..Len(s)}

(***************************************************************************)
(* Texts: String.prototype.trim, toLowerCase, includes.                    *)
(***************************************************************************)
UpperLetters == <<"A", "B", "C", "D", "E", "F", "G", "H", "I", "J", "K", "L", "M",
                  "N", "O", "P", "Q", "R", "S", "T", "U", "V", "W", "X", "Y", "Z">>
LowerLetters == <<"a", "b", "c", "d", "e", "f", "g", "h", "i", "j", "k", "l", "m",
                  "n", "o", "p", "q", "r", "s", "t", "u", "v", "w", "x", "y", "z">>
Digits == {"0", "1", "2", "3", "4", "5", "6", "7", "8", "9"}
WhiteSpace == {" ", "\t", "\n"}

ToLowerChar(c) ==
    IF \E i \in 1..26 : UpperLetters[i] = c
    THEN LowerLetters[CHOOSE i \in 1..26 : UpperLetters[i] = c]
    ELSE c

ToLowerCase(text) == [i \in 1..Len(text) |-> ToLowerChar(text[i])]

Trim(text) ==
    LET keep == {i \in 1..Len(text) : text[i] \notin WhiteSpace} IN
    IF keep = {} THEN <<>>
    ELSE SubSeq(text, CHOOSE i \in keep : \A j \in keep : i <= j,
                      CHOOSE i \in keep : \A j \in keep : j <= i)

Includes(text, word) ==
    \E i \in 1..(Len(text) - Len(word) + 1) : SubSeq(text, i, i + Len(word) - 1) = word

\* \w of a regular expression
IsWordChar(c) ==
    \/ c \in Digits
    \/ c = "_"
    \/ \E i \in 1..26 : c = UpperLetters[i] \/ c = LowerLetters[i]

(***************************************************************************)
(* detectHeuristicRisk                                                     *)
(***************************************************************************)
urgencyKeywords ==
    << <<"i", "m", "m", "e", "d", "i", "a", "t", "e", "l", "y">>,
       <<"u", "r", "g", "e", "n", "t">>,
       <<"f", "i", "n", "e">>,
       <<"p", "e", "n", "a", "l", "t", "y">>,
       <<"p", "o", "l", "i", "c", "e">>,
       <<"l", "a", "s", "t", " ", "w", "a", "r", "n", "i", "n", "g">>,
       <<"d", "e", "a", "d", "l", "i", "n", "e">>,
       <<"j", "a", "l", "d", "i">>,
       <<"t", "a", "t", "k", "a", "l">>,
       <<"U+0CA4", "U+0C95", "U+0CCD", "U+0CB7", "U+0CA3">>,
       <<"U+0CA6", "U+0C82", "U+0CA1">> >>

misinformationKeywords ==
    << <<"a", "g", "e", "n", "t">>,
       <<"s", "h", "o", "r", "t", "c", "u", "t">>,
       <<"s", "i", "g", "n", " ", "q", "u", "i", "c", "k", "l", "y">>,
       <<"d", "o", "n", "'", "t", " ", "r", "e", "a", "d">>,
       <<"d", "i", "f", "f", "e", "r", "e", "n", "t", " ", "o", "f", "f", "i", "c", "e">>,
       <<"e", "x", "t", "r", "a", " ", "c", "h", "a", "r", "g", "e", " ", "f", "o", "r", " ",
         "f", "o", "r", "m">>,
       <<"c", "o", "m", "m", "i", "s", "s", "i", "o", "n">>,
       <<"b", "r", "o", "k", "e", "r">> >>

\* /(U+20B9|rs\.?|rupees|fare|charge|fees|price|rate|cost|ticket|rent)/i : an
\* alternation without anchors, so it matches where one alternative occurs
\* ("rs\.?" occurs where "rs" does).
priceHints ==
    << <<"U+20B9">>,
       <<"r", "s">>,
       <<"r", "u", "p", "e", "e", "s">>,
       <<"f", "a", "r", "e">>,
       <<"c", "h", "a", "r", "g", "e">>,
       <<"f", "e", "e", "s">>,
       <<"p", "r", "i", "c", "e">>,
       <<"r", "a", "t", "e">>,
       <<"c", "o", "s", "t">>,
       <<"t", "i", "c", "k", "e", "t">>,
       <<"r", "e", "n", "t">> >>

\* /\b([5-9]\d{2}|\d{4,})\b/ : a run of digits with a word boundary on both
\* sides, which is three digits long and starts with 5..9, or four or more long.
highAmount(text) ==
    \E i \in 1..Len(text) : \E j \in i..Len(text) :
        /\ \A k \in i..j : text[k] \in Digits
        /\ i = 1 \/ ~IsWordChar(text[i - 1])
        /\ j = Len(text) \/ ~IsWordChar(text[j + 1])
        /\ \/ j - i + 1 = 3 /\ text[i] \in {"5", "6", "7", "8", "9"}
           \/ j - i + 1 >= 4

HeuristicUrgency(id, t) ==
    [id |-> id, type |-> "urgency", level |-> "medium", confidence |-> 66,
     timestamp |-> t, source |-> "heuristic"]

HeuristicMisinformation(id, t) ==
    [id |-> id, type |-> "misinformation", level |-> "medium", confidence |-> 64,
     timestamp |-> t, source |-> "heuristic"]

HeuristicPrice(id, t) ==
    [id |-> id, type |-> "price", level |-> "low", confidence |-> 56,
     timestamp |-> t, source |-> "heuristic"]

\* a detectHeuristicRisk that tests the price pattern first
detectHeuristicRiskPriceFirst(transcript, id, t) ==
    LET text == Trim(transcript)
        lower == ToLowerCase(text)
    IN  IF text = <<>> THEN <<>>
        ELSE IF (\E k \in 1..Len(priceHints) : Includes(lower, priceHints[k]))
                /\ highAmount(lower)
        THEN <<HeuristicPrice(id, t)>>
        ELSE IF \E k \in 1..Len(urgencyKeywords) : Includes(lower, urgencyKeywords[k])
        THEN <<HeuristicUrgency(id, t)>>
        ELSE IF \E k \in 1..Len(misinformationKeywords) :
                    Includes(lower, misinformationKeywords[k])
        THEN <<HeuristicMisinformation(id, t)>>
        ELSE <<>>

\* The signal (or null) for a transcript; id is the id createRiskId gives.
detectHeuristicRisk(transcript, id, t) ==
    LET text == Trim(transcript)
        lower == ToLowerCase(text)
    IN  IF text = <<>> THEN <<>>
        ELSE IF \E k \in 1..Len(urgencyKeywords) : Includes(lower, urgencyKeywords[k])
        THEN <<HeuristicUrgency(id, t)>>
        ELSE IF \E k \in 1..Len(misinformationKeywords) :
                    Includes(lower, misinformationKeywords[k])
        THEN <<HeuristicMisinformation(id, t)>>
        ELSE IF (\E k \in 1..Len(priceHints) : Includes(lower, priceHints[k]))
                /\ highAmount(lower)
        THEN <<HeuristicPrice(id, t)>>
        ELSE <<>>

(***************************************************************************)
(* Tool-call arguments.  A text argument is a text, <<>> when it is        *)
(* missing (String(undefined || "") is ""); a numeric argument is <<>>     *)
(* when missing, else <<[nan, value]>> with value in hundredths.           *)
(***************************************************************************)
Num(v) == [nan |-> FALSE, value |-> v]
NotANumber == [nan |-> TRUE, value |-> 0]

S_price == <<"p", "r", "i", "c", "e">>
S_misinformation == <<"m", "i", "s", "i", "n", "f", "o", "r", "m", "a", "t", "i", "o", "n">>
S_urgency == <<"u", "r", "g", "e", "n", "c", "y">>
S_low == <<"l", "o", "w">>
S_medium == <<"m", "e", "d", "i", "u", "m">>
S_high == <<"h", "i", "g", "h">>
S_scam == <<"s", "c", "a", "m">>
S_overspend == <<"o", "v", "e", "r", "s", "p", "e", "n", "d">>
S_safety == <<"s", "a", "f", "e", "t", "y">>
S_negotiation == <<"n", "e", "g", "o", "t", "i", "a", "t", "i", "o", "n">>
S_general == <<"g", "e", "n", "e", "r", "a", "l">>
S_menu == <<"m", "e", "n", "u">>
S_document == <<"d", "o", "c", "u", "m", "e", "n", "t">>
S_form == <<"f", "o", "r", "m">>
S_sign == <<"s", "i", "g", "n">>
S_table == <<"t", "a", "b", "l", "e">>
S_SPOT == <<"S", "P", "O", "T">>
S_ECHO == <<"E", "C", "H", "O">>
S_GUIDE == <<"G", "U", "I", "D", "E">>
S_BRIDGE == <<"B", "R", "I", "D", "G", "E">>
S_SHIELD == <<"S", "H", "I", "E", "L", "D">>

\* Number(x || 0): a missing, zero or NaN argument is 0
NumberOrZero(raw) ==
    IF raw = <<>> THEN Num(0)
    ELSE IF raw[1].nan \/ raw[1].value = 0 THEN Num(0)
    ELSE raw[1]

clampConfidence(value) ==
    IF value.nan THEN 0
    ELSE IF value.value < 0 THEN 0
    ELSE IF value.value > 100 THEN 100
    ELSE value.value

parseRiskLevel(raw) ==
    LET value == Trim(ToLowerCase(raw)) IN
    IF value = S_low THEN <<"low">>
    ELSE IF value = S_medium THEN <<"medium">>
    ELSE IF value = S_high THEN <<"high">>
    ELSE <<>>

parseRiskType(raw) ==
    LET value == Trim(ToLowerCase(raw)) IN
    IF value = S_price THEN <<"price">>
    ELSE IF value = S_misinformation THEN <<"misinformation">>
    ELSE IF value = S_urgency THEN <<"urgency">>
    ELSE <<>>

\* args is <<>> (undefined) or <<record>>; the result is null or a signal
parseRiskSignalFromArgs(args, id, t) ==
    IF args = <<>> THEN <<>>
    ELSE LET a == args[1]
             type == parseRiskType(a.type)
             level == parseRiskLevel(a.level)
             cue == Trim(a.cue)
             reason == Trim(a.reason)
             action == Trim(a.action)
             confidence == clampConfidence(NumberOrZero(a.confidence))
         IN  IF type = <<>> \/ level = <<>> \/ cue = <<>> \/ reason = <<>> \/ action = <<>>
             THEN <<>>
             ELSE <<[id |-> id, type |-> type[1], level |-> level[1],
                     confidence |-> confidence, timestamp |-> t, source |-> "model"]>>

(***************************************************************************)
(* The risk engine.                                                        *)
(***************************************************************************)
\* shouldReplaceRisk without the protection window of a model signal
shouldReplaceRiskNoWindow(previous, next, t) ==
    IF previous = <<>> THEN TRUE
    ELSE LET p == previous[1] IN
         IF next.source = "model" /\ p.source = "heuristic" THEN TRUE
         ELSE RISK_LEVEL_PRIORITY[next.level] >= RISK_LEVEL_PRIORITY[p.level]

\* a shouldReplaceRisk without the rule that a model signal replaces a heuristic one
shouldReplaceRiskByLevel(previous, next, t) ==
    IF previous = <<>> THEN TRUE
    ELSE LET p == previous[1] IN
         IF /\ p.source = "model"
            /\ next.source = "heuristic"
            /\ RISK_LEVEL_PRIORITY[p.level] >= RISK_LEVEL_PRIORITY["medium"]
            /\ t - p.timestamp < ProtectionMs
         THEN FALSE
         ELSE RISK_LEVEL_PRIORITY[next.level] >= RISK_LEVEL_PRIORITY[p.level]

\* a shouldReplaceRisk that lets every accepted signal take the slot
shouldReplaceRiskAlways(previous, next, t) == TRUE

shouldReplaceRisk(previous, next, t) ==
    IF previous = <<>> THEN TRUE
    ELSE LET p == previous[1] IN
         IF /\ p.source = "model"
            /\ next.source = "heuristic"
            /\ RISK_LEVEL_PRIORITY[p.level] >= RISK_LEVEL_PRIORITY["medium"]
            /\ t - p.timestamp < ProtectionMs
         THEN FALSE
         ELSE IF next.source = "model" /\ p.source = "heuristic" THEN TRUE
         ELSE RISK_LEVEL_PRIORITY[next.level] >= RISK_LEVEL_PRIORITY[p.level]

\* the policy gate without the confidence thresholds
PassesPolicyNoThreshold(signal, enabled) ==
    /\ enabled
    /\ signal.type \in EnabledTypes

\* The policy gate of applyRiskSignal: the guard, the allow-list, the thresholds.
PassesPolicy(signal, enabled) ==
    /\ enabled
    /\ signal.type \in EnabledTypes
    /\ ~(signal.level = "medium" /\ signal.confidence < MinConfidenceForMedium)
    /\ ~(signal.level = "high" /\ signal.confidence < MinConfidenceForHigh)

\* a cooldown gate that lets every signal pass
NoCooldown(cooldown, signal, t) == FALSE

\* The cooldown gate of applyRiskSignal.
\* a cooldown test that one clock of any type can fail
InCooldownOfAnyType(cooldown, signal, t) ==
    \E type \in DOMAIN cooldown : t - cooldown[type] < CooldownMs

InCooldown(cooldown, signal, t) == t - cooldown[signal.type] < CooldownMs

\* a history that is never cut
PushHistoryNoCap(history, signal) == <<signal>> \o history

PushHistory(history, signal) == Take(<<signal>> \o history, HistoryCap)

\* an applyRiskSignal that shows a signal it rejects
applyRiskSignalShowsRejected(rs, signal, t, enabled) ==
    IF ~PassesPolicy(signal, enabled) \/ InCooldown(rs.cooldown, signal, t)
    THEN [accepted |-> FALSE, cooldown |-> rs.cooldown, current |-> <<signal>>,
          history |-> rs.history]
    ELSE [accepted |-> TRUE,
          cooldown |-> [rs.cooldown EXCEPT ![signal.type] = t],
          current |-> IF shouldReplaceRisk(rs.current, signal, t)
                      THEN <<signal>> ELSE rs.current,
          history |-> PushHistory(rs.history, signal)]

\* applyRiskSignal on the engine state rs = [cooldown, current, history] at
\* time t: what it returns and the state it leaves.
\* an applyRiskSignal that restarts the cooldown of a signal it rejects
applyRiskSignalRestartsCooldown(rs, signal, t, enabled) ==
    IF ~PassesPolicy(signal, enabled)
    THEN [accepted |-> FALSE, cooldown |-> rs.cooldown, current |-> rs.current,
          history |-> rs.history]
    ELSE IF InCooldown(rs.cooldown, signal, t)
    THEN [accepted |-> FALSE, cooldown |-> [rs.cooldown EXCEPT ![signal.type] = t],
          current |-> rs.current, history |-> rs.history]
    ELSE [accepted |-> TRUE,
          cooldown |-> [rs.cooldown EXCEPT ![signal.type] = t],
          current |-> IF shouldReplaceRisk(rs.current, signal, t)
                      THEN <<signal>> ELSE rs.current,
          history |-> PushHistory(rs.history, signal)]

\* an applyRiskSignal that records a signal only when it becomes the current risk
applyRiskSignalRecordsReplacing(rs, signal, t, enabled) ==
    IF ~PassesPolicy(signal, enabled) \/ InCooldown(rs.cooldown, signal, t)
    THEN [accepted |-> FALSE, cooldown |-> rs.cooldown, current |-> rs.current,
          history |-> rs.history]
    ELSE [accepted |-> TRUE,
          cooldown |-> [rs.cooldown EXCEPT ![signal.type] = t],
          current |-> IF shouldReplaceRisk(rs.current, signal, t)
                      THEN <<signal>> ELSE rs.current,
          history |-> IF shouldReplaceRisk(rs.current, signal, t)
                      THEN PushHistory(rs.history, signal) ELSE rs.history]

\* an applyRiskSignal that clears the engine when it rejects a signal
applyRiskSignalClearsRejected(rs, signal, t, enabled) ==
    IF ~PassesPolicy(signal, enabled) \/ InCooldown(rs.cooldown, signal, t)
    THEN [accepted |-> FALSE, cooldown |-> rs.cooldown, current |-> <<>>,
          history |-> <<>>]
    ELSE [accepted |-> TRUE,
          cooldown |-> [rs.cooldown EXCEPT ![signal.type] = t],
          current |-> IF shouldReplaceRisk(rs.current, signal, t)
                      THEN <<signal>> ELSE rs.current,
          history |-> PushHistory(rs.history, signal)]

applyRiskSignal(rs, signal, t, enabled) ==
    IF ~PassesPolicy(signal, enabled) \/ InCooldown(rs.cooldown, signal, t)
    THEN [accepted |-> FALSE, cooldown |-> rs.cooldown, current |-> rs.current,
          history |-> rs.history]
    ELSE [accepted |-> TRUE,
          cooldown |-> [rs.cooldown EXCEPT ![signal.type] = t],
          current |-> IF shouldReplaceRisk(rs.current, signal, t)
                      THEN <<signal>> ELSE rs.current,
          history |-> PushHistory(rs.history, signal)]

(***************************************************************************)
(* One run of a server-event handler threads a record h through its calls: *)
(* the engine state, the id counter, the lists the tool functions fill,    *)
(* the responses built so far and the record of the engine calls made.     *)
(***************************************************************************)
HandlerStart ==
    [cooldown |-> riskCooldownByType, current |-> currentRisk, history |-> riskHistory,
     seq |-> riskSeq, suggestions |-> suggestions, formatted |-> formattedContents,
     behavior |-> autoDetectedBehavior, reason |-> autoDetectedReason,
     responses |-> <<>>, applied |-> <<>>, detected |-> <<>>]

\* applyRiskSignal called from a handler
Apply(h, signal, t, enabled) ==
    LET r == applyRiskSignal(h, signal, t, enabled) IN
    [h EXCEPT !.cooldown = r.cooldown, !.current = r.current, !.history = r.history,
              !.applied = Append(@, [signal |-> signal, accepted |-> r.accepted])]

Response(call, accepted, reason) ==
    [id |-> call.id, name |-> call.name, accepted |-> accepted, reason |-> reason]

Respond(h, call, accepted, reason) ==
    [h EXCEPT !.responses = Append(@, Response(call, accepted, reason))]

\* an emit_risk_signal branch that answers a filtered signal as a malformed one
HandleRiskFilteredAsMalformed(h, call, t, enabled) ==
    IF ~enabled THEN Respond(h, call, FALSE, "Risk guard disabled.")
    ELSE LET parsed == parseRiskSignalFromArgs(call.args, h.seq + 1, t) IN
         IF parsed = <<>> THEN Respond(h, call, FALSE, "Malformed risk signal payload.")
         ELSE LET h1 == Apply([h EXCEPT !.seq = @ + 1], parsed[1], t, enabled)
                  accepted == h1.applied[Len(h1.applied)].accepted
              IN  Respond(h1, call, accepted,
                          IF accepted THEN "Risk signal recorded."
                          ELSE "Malformed risk signal payload.")

\* a handler that applies an emit_risk_signal whatever the risk guard says
HandleRiskGuardIgnored(h, call, t, enabled) ==
    LET parsed == parseRiskSignalFromArgs(call.args, h.seq + 1, t) IN
    IF parsed = <<>> THEN Respond(h, call, FALSE, "Malformed risk signal payload.")
    ELSE LET h1 == Apply([h EXCEPT !.seq = @ + 1], parsed[1], t, TRUE)
             accepted == h1.applied[Len(h1.applied)].accepted
         IN  Respond(h1, call, accepted,
                     IF accepted THEN "Risk signal recorded."
                     ELSE "Filtered by policy/cooldown.")

HandleRisk(h, call, t, enabled) ==
    IF ~enabled THEN Respond(h, call, FALSE, "Risk guard disabled.")
    ELSE LET parsed == parseRiskSignalFromArgs(call.args, h.seq + 1, t) IN
         IF parsed = <<>> THEN Respond(h, call, FALSE, "Malformed risk signal payload.")
         ELSE LET h1 == Apply([h EXCEPT !.seq = @ + 1], parsed[1], t, enabled)
                  accepted == h1.applied[Len(h1.applied)].accepted
              IN  Respond(h1, call, accepted,
                          IF accepted THEN "Risk signal recorded."
                          ELSE "Filtered by policy/cooldown.")

validCategories == {S_overspend, S_scam, S_safety, S_negotiation, S_general}

ArgsOrEmpty(args) ==
    IF args = <<>>
    THEN [type |-> <<>>, level |-> <<>>, cue |-> <<>>, reason |-> <<>>, action |-> <<>>,
          confidence |-> <<>>, category |-> <<>>, title |-> <<>>, detail |-> <<>>,
          behavior |-> <<>>, contentType |-> <<>>, markdown |-> <<>>, language |-> <<>>]
    ELSE args[1]

HandleSuggestion(h, call, t) ==
    LET args == ArgsOrEmpty(call.args)
        category == Trim(args.category)
        title == Trim(args.title)
        detail == Trim(args.detail)
        action == Trim(args.action)
        confidence == clampConfidence(NumberOrZero(args.confidence))
    IN  IF category \notin validCategories \/ title = <<>> \/ detail = <<>> \/ action = <<>>
        THEN Respond(h, call, FALSE, "Malformed suggestion payload.")
        ELSE Respond([h EXCEPT !.suggestions =
                          Take(<<[category |-> category, confidence |-> confidence,
                                  timestamp |-> t, source |-> "model"]>> \o @,
                               SuggestionCap)],
                     call, TRUE, "Suggestion recorded.")

validBehaviors == {S_SPOT, S_ECHO, S_GUIDE, S_BRIDGE, S_SHIELD}

HandleModeSignal(h, call) ==
    LET args == ArgsOrEmpty(call.args)
        behavior == Trim(args.behavior)
        reason == Trim(args.reason)
        h1 == IF behavior \in validBehaviors
              THEN [h EXCEPT !.behavior = <<behavior>>, !.reason = <<reason>>]
              ELSE h
    IN  Respond(h1, call, TRUE, "Mode signal received.")

validTypes == {S_menu, S_document, S_form, S_sign, S_table, S_general}

HandleFormattedContent(h, call, t) ==
    LET args == ArgsOrEmpty(call.args)
        contentType == Trim(IF args.contentType = <<>> THEN S_general ELSE args.contentType)
        title == Trim(args.title)
        markdown == Trim(args.markdown)
        language == Trim(args.language)
    IN  IF contentType \notin validTypes \/ title = <<>> \/ markdown = <<>>
        THEN Respond(h, call, FALSE, "Malformed formatted content payload.")
        ELSE Respond([h EXCEPT !.formatted =
                          Take(<<[contentType |-> contentType, language |-> language,
                                  timestamp |-> t]>> \o @, FormattedCap)],
                     call, TRUE, "Formatted content recorded.")

\* a callback that answers only the functions it knows
HandleCallKnownOnly(h, call, t, enabled) ==
    IF call.name = RISK_FUNCTION_NAME THEN HandleRisk(h, call, t, enabled)
    ELSE IF call.name = SUGGESTION_FUNCTION_NAME THEN HandleSuggestion(h, call, t)
    ELSE IF call.name = MODE_SIGNAL_FUNCTION_NAME THEN HandleModeSignal(h, call)
    ELSE IF call.name = FORMATTED_CONTENT_FUNCTION_NAME THEN HandleFormattedContent(h, call, t)
    ELSE h

\* a callback that accepts the functions it does not know
HandleCallAcceptsUnknown(h, call, t, enabled) ==
    IF call.name = RISK_FUNCTION_NAME THEN HandleRisk(h, call, t, enabled)
    ELSE IF call.name = SUGGESTION_FUNCTION_NAME THEN HandleSuggestion(h, call, t)
    ELSE IF call.name = MODE_SIGNAL_FUNCTION_NAME THEN HandleModeSignal(h, call)
    ELSE IF call.name = FORMATTED_CONTENT_FUNCTION_NAME THEN HandleFormattedContent(h, call, t)
    ELSE Respond(h, call, TRUE, "Unsupported function.")

\* the callback of toolCall.functionCalls.map
HandleCall(h, call, t, enabled) ==
    IF call.name = RISK_FUNCTION_NAME THEN HandleRisk(h, call, t, enabled)
    ELSE IF call.name = SUGGESTION_FUNCTION_NAME THEN HandleSuggestion(h, call, t)
    ELSE IF call.name = MODE_SIGNAL_FUNCTION_NAME THEN HandleModeSignal(h, call)
    ELSE IF call.name = FORMATTED_CONTENT_FUNCTION_NAME THEN HandleFormattedContent(h, call, t)
    ELSE Respond(h, call, FALSE, "Unsupported function.")

RECURSIVE HandleCalls(_, _, _, _, _)
HandleCalls(h, calls, i, t, enabled) ==
    IF i > Len(calls) THEN h
    ELSE HandleCalls(HandleCall(h, calls[i], t, enabled), calls, i + 1, t, enabled)

\* maybeApplyHeuristicRisk
maybeApplyHeuristicRisk(h, transcript, t, enabled) ==
    IF ~enabled THEN h
    ELSE LET found == detectHeuristicRisk(transcript, h.seq + 1, t)
             h1 == [h EXCEPT !.detected = Append(@, [text |-> transcript, result |-> found])]
         IN  IF found = <<>> THEN h1
             ELSE Apply([h1 EXCEPT !.seq = @ + 1], found[1], t, enabled)

\* a falsy text (missing or "") is skipped
MaybeTranscript(h, text, t, enabled) ==
    IF text = <<>> THEN h ELSE maybeApplyHeuristicRisk(h, text, t, enabled)

(***************************************************************************)
(* The server events the model feeds the handlers.                         *)
(***************************************************************************)
TxPayNowOrPolice ==
    <<"p", "a", "y", " ", "n", "o", "w", " ", "o", "r", " ", "p", "o", "l", "i", "c", "e">>
TxTicket750 ==
    <<"t", "i", "c", "k", "e", "t", " ", "c", "o", "s", "t", "s", " ", "7", "5", "0", " ",
      "r", "u", "p", "e", "e", "s">>
TxThankYou == <<"t", "h", "a", "n", "k", " ", "y", "o", "u">>
TxAgentFare ==
    <<" ", "A", "g", "e", "n", "t", " ", "f", "a", "r", "e", " ", "5", "0", "0", "0", " ">>

Transcripts == {TxPayNowOrPolice, TxTicket750, TxThankYou, TxAgentFare}

\* A content event: the input transcription, the output transcription and
\* the joined text parts of the model turn, each <<>> when absent.
Content(input, output, text) == [input |-> input, output |-> output, text |-> text]

ContentEvents ==
    {Content(tx, <<>>, <<>>) : tx \in Transcripts}
    \cup {Content(<<>>, TxTicket750, <<>>), Content(<<>>, <<>>, TxAgentFare),
          Content(TxPayNowOrPolice, TxTicket750, TxAgentFare)}

X == <<"x">>
BaseArgs == ArgsOrEmpty(<<>>)

RiskArgs(type, level, confidence) ==
    <<[BaseArgs EXCEPT !.type = type, !.level = level, !.cue = X, !.reason = X,
                       !.action = X, !.confidence = <<Num(confidence)>>]>>

Call(id, name, args) == [id |-> id, name |-> name, args |-> args]

\* emit_risk_signal invocations: at, below and above the two thresholds,
\* for the three types, and one without arguments
RiskCalls ==
    {Call("r1", RISK_FUNCTION_NAME, RiskArgs(S_price, S_low, 50)),
     Call("r2", RISK_FUNCTION_NAME, RiskArgs(S_price, S_medium, 62)),
     Call("r3", RISK_FUNCTION_NAME, RiskArgs(S_price, S_high, 50)),
     Call("r4", RISK_FUNCTION_NAME, RiskArgs(S_price, S_high, 78)),
     Call("r5", RISK_FUNCTION_NAME, RiskArgs(S_urgency, S_medium, 50)),
     Call("r6", RISK_FUNCTION_NAME, RiskArgs(S_urgency, S_medium, 78)),
     Call("r7", RISK_FUNCTION_NAME, RiskArgs(S_urgency, S_high, 62)),
     Call("r8", RISK_FUNCTION_NAME, RiskArgs(S_misinformation, S_low, 62)),
     Call("r9", RISK_FUNCTION_NAME, RiskArgs(S_misinformation, S_high, 78)),
     Call("r10", RISK_FUNCTION_NAME, <<>>)}

\* one signal of each type in a batch
OneOfEachType ==
    << Call("r4", RISK_FUNCTION_NAME, RiskArgs(S_price, S_high, 78)),
       Call("r6", RISK_FUNCTION_NAME, RiskArgs(S_urgency, S_medium, 78)),
       Call("r9", RISK_FUNCTION_NAME, RiskArgs(S_misinformation, S_high, 78)) >>

RiskBatches == {<<c>> : c \in RiskCalls} \cup {OneOfEachType}

(***************************************************************************)
(* Init: the state after NativeConsole is constructed.                     *)
(***************************************************************************)
EmptyEngine ==
    [cooldown |-> [type \in RiskTypes |-> 0], current |-> <<>>, history |-> <<>>]

InitEngine(rs, seq) ==
    /\ now = StartMs
    /\ riskGuardEnabled = TRUE
    /\ riskCooldownByType = rs.cooldown
    /\ currentRisk = rs.current
    /\ riskHistory = rs.history
    /\ riskSeq = seq
    /\ suggestions = <<>>
    /\ formattedContents = <<>>
    /\ autoDetectedBehavior = <<>>
    /\ autoDetectedReason = <<>>
    /\ events = 0
    /\ lastToolCall = <<>>
    /\ lastToolResponse = <<>>
    /\ sendCalls = 0
    /\ lastApplied = <<>>
    /\ lastDetect = <<>>

\* the rest of the component before its first effects
InitConsole ==
    /\ mounted = FALSE
    /\ activeMode = <<"SPOT">>
    /\ sourceLanguage = "kn-IN"
    /\ targetLanguage = "hi-IN"
    /\ activeVoice = "Kore"
    /\ searchEnabled = TRUE
    /\ reconnectGuardRef = <<>>
    /\ connected = FALSE
    /\ healthConnected = FALSE
    /\ reconnecting = FALSE
    /\ lastError = <<>>
    /\ permVision = "unknown"
    /\ liveConnected = FALSE
    /\ callbackStale = FALSE
    /\ tasks = <<>>
    /\ effectTask = 0
    /\ lastPass = <<>>
    /\ configChanges = 0
    /\ reconcilerDisconnects = 0
    /\ reconcilerConnects = 0
    /\ transportFailed = FALSE
    /\ visionEnabled = FALSE
    /\ visualSource = "camera"
    /\ activeStream = <<>>
    /\ webcamOpen = FALSE
    /\ screenOpen = FALSE
    /\ visionTasks = <<>>
    /\ visionOps = 0
    /\ micEnabled = FALSE
    /\ permMic = "unknown"
    /\ micProbes = <<>>
    /\ selectedSceneId = DEMO_SCENES[1].id
    /\ sceneContext = DEMO_SCENES[1].scriptHint
    /\ sceneOps = 0
    /\ micOps = 0
    /\ recorderOn = FALSE
    /\ recorderStarts = <<>>
    /\ dataListener = FALSE
    /\ audioDeps = <<>>
    /\ lastChunk = <<>>
    /\ micDenied = <<>>
    /\ frameDeps = <<>>
    /\ frameLoops = <<>>
    /\ srcObject = <<>>
    /\ videoDims = FALSE
    /\ canvasCtx = TRUE
    /\ lastFrame = <<>>
    /\ frameTicks = 0

Init == InitEngine(EmptyEngine, 0) /\ InitConsole

(***************************************************************************)
(* Actions.                                                                *)
(***************************************************************************)
\* time passes
Tick ==
    /\ mounted
    /\ now < StartMs + MaxTicks * TickMs
    /\ now' = now + TickMs
    /\ UNCHANGED <<riskGuardEnabled, riskCooldownByType, currentRisk, riskHistory,
                   riskSeq, suggestions, formattedContents, autoDetectedBehavior,
                   autoDetectedReason, events, lastToolCall, lastToolResponse, sendCalls,
                   lastApplied, lastDetect>>
    /\ UNCHANGED <<mounted, configVars, sessionVars, lastError, visionVars, micVars,
                   sceneVars, mediaVars>>

\* what a handler run leaves in the component
Commit(h) ==
    /\ riskCooldownByType' = h.cooldown
    /\ currentRisk' = h.current
    /\ riskHistory' = h.history
    /\ riskSeq' = h.seq
    /\ suggestions' = h.suggestions
    /\ formattedContents' = h.formatted
    /\ autoDetectedBehavior' = h.behavior
    /\ autoDetectedReason' = h.reason
    /\ lastApplied' = h.applied
    /\ lastDetect' = h.detected

\* a handler that sends each response in a reply of its own
OnToolCallReplyEach(calls) ==
    /\ mounted
    /\ events' = events + 1
    /\ lastToolCall' = calls
    /\ LET h == HandleCalls(HandlerStart, calls, 1, now, riskGuardEnabled) IN
       /\ Commit(h)
       /\ sendCalls' = Len(h.responses)
       /\ lastToolResponse' = IF Len(h.responses) > 0
                              THEN <<h.responses[Len(h.responses)]>>
                              ELSE lastToolResponse
    /\ UNCHANGED <<now, riskGuardEnabled>>
    /\ UNCHANGED <<mounted, configVars, sessionVars, lastError, visionVars, micVars,
                   sceneVars, mediaVars>>

\* client "toolcall" event.  The updaters queued by setCurrentRisk and
\* setRiskHistory run in the order of the calls, at the handler's clock reading.
OnToolCall(calls) ==
    /\ mounted
    /\ events' = events + 1
    /\ lastToolCall' = calls
    /\ IF Len(calls) = 0
       THEN /\ Commit(HandlerStart)
            /\ sendCalls' = 0
            /\ UNCHANGED lastToolResponse
       ELSE LET h == HandleCalls(HandlerStart, calls, 1, now, riskGuardEnabled) IN
            /\ Commit(h)
            /\ IF Len(h.responses) > 0
               THEN sendCalls' = 1 /\ lastToolResponse' = h.responses
               ELSE sendCalls' = 0 /\ UNCHANGED lastToolResponse
    /\ UNCHANGED <<now, riskGuardEnabled>>
    /\ UNCHANGED <<mounted, configVars, sessionVars, lastError, visionVars, micVars,
                   sceneVars, mediaVars>>

\* client "content" event (the transcript panel's state is left out)
OnContent(content) ==
    /\ mounted
    /\ events' = events + 1
    /\ LET h1 == MaybeTranscript(HandlerStart, content.input, now, riskGuardEnabled)
           h2 == MaybeTranscript(h1, content.output, now, riskGuardEnabled)
           h3 == MaybeTranscript(h2, Trim(content.text), now, riskGuardEnabled)
       IN  Commit(h3)
    /\ UNCHANGED <<now, riskGuardEnabled, lastToolCall, lastToolResponse, sendCalls>>
    /\ UNCHANGED <<mounted, configVars, sessionVars, lastError, visionVars, micVars,
                   sceneVars, mediaVars>>

RiskToolCall == events < MaxEvents /\ \E calls \in RiskBatches : OnToolCall(calls)

RiskContent == events < MaxEvents /\ \E content \in ContentEvents : OnContent(content)

(***************************************************************************)
(* The session configuration and its reconciliation.                       *)
(***************************************************************************)
Modes == {"SPOT", "GUIDE", "AUTO"}      \* of SPOT, ECHO, GUIDE, BRIDGE, SHIELD, AUTO
Languages == {"hi-IN", "kn-IN"}         \* of LANGUAGES
Voices == {"Kore", "Puck"}              \* of VOICES

NativeModes == {"SPOT", "ECHO", "GUIDE", "BRIDGE", "SHIELD", "AUTO"}

\* the configuration state a render reads
ConfigState ==
    [mode |-> activeMode, source |-> sourceLanguage, target |-> targetLanguage,
     voice |-> activeVoice, search |-> searchEnabled, guard |-> riskGuardEnabled,
     scene |-> sceneContext]

\* a buildConfig that offers the search tool in GUIDE mode alone
buildConfigGuideOnly(c) ==
    [voiceName |-> c.voice,
     systemInstruction |-> [mode |-> c.mode, source |-> c.source, target |-> c.target,
                               scene |-> c.scene],
     tools |-> (IF c.mode = <<"GUIDE">> /\ c.search THEN <<[googleSearch |-> <<>>]>> ELSE <<>>)
               \o (IF c.guard
                   THEN <<[functionDeclarations |-> <<RISK_FUNCTION_NAME>>]>> ELSE <<>>)]

\* buildConfig: what of the LiveConnectConfig depends on the state.  The system
\* instruction is a text of the mode, the two languages and the scene context.
buildConfig(c) ==
    LET isAutoMode == c.mode = <<"AUTO">>
        search == (c.mode = <<"GUIDE">> \/ c.mode = <<"SHIELD">> \/ isAutoMode) /\ c.search
        fnDeclarations ==
            (IF c.guard THEN <<RISK_FUNCTION_NAME>> ELSE <<>>)
            \o (IF c.mode = <<"SHIELD">> \/ isAutoMode THEN <<SUGGESTION_FUNCTION_NAME>> ELSE <<>>)
            \o (IF c.mode = <<"SPOT">> \/ isAutoMode THEN <<FORMATTED_CONTENT_FUNCTION_NAME>> ELSE <<>>)
            \o (IF isAutoMode THEN <<MODE_SIGNAL_FUNCTION_NAME>> ELSE <<>>)
    IN  [voiceName |-> c.voice,
         systemInstruction |-> [mode |-> c.mode, source |-> c.source, target |-> c.target,
                               scene |-> c.scene],
         tools |-> (IF search THEN <<[googleSearch |-> <<>>]>> ELSE <<>>)
                   \o (IF Len(fnDeclarations) > 0
                       THEN <<[functionDeclarations |-> fnDeclarations]>> ELSE <<>>)]

\* JSON.stringify(sessionConfig): equal texts exactly for equal configurations
sessionSignature(c) == buildConfig(c)

Task(kind, pc) == [kind |-> kind, pc |-> pc, cancelled |-> FALSE]

\* a promise of the transport has settled and its continuation has not run yet
ContinuationPending ==
    \E i \in 1..Len(tasks) :
        tasks[i].pc \in {"after_disconnect", "after_connect", "disconnect_failed", "connect_failed"}

\* a reconnect effect that does not compare the signature with the stored one
ReconnectEffectNoCompare(signature, isConnected) ==
    LET cleaned == IF effectTask # 0 /\ tasks[effectTask].pc # "done"
                   THEN [tasks EXCEPT ![effectTask].cancelled = TRUE]
                   ELSE tasks
    IN  IF reconnectGuardRef = <<>> \/ ~isConnected
        THEN [guard |-> <<signature>>, tasks |-> cleaned, effectTask |-> 0,
              reconnecting |-> reconnecting, lastError |-> lastError,
              disconnects |-> reconcilerDisconnects]
        ELSE [guard |-> <<signature>>,
              tasks |-> Append(cleaned, Task("reconnect", "await_disconnect")),
              effectTask |-> Len(cleaned) + 1,
              reconnecting |-> TRUE,
              lastError |-> <<>>,
              disconnects |-> reconcilerDisconnects + 1]

\* a reconnect effect that does not look at the connected flag
ReconnectEffectAnyConnection(signature, isConnected) ==
    LET cleaned == IF effectTask # 0 /\ tasks[effectTask].pc # "done"
                   THEN [tasks EXCEPT ![effectTask].cancelled = TRUE]
                   ELSE tasks
    IN  IF reconnectGuardRef = <<>> \/ reconnectGuardRef = <<signature>>
        THEN [guard |-> <<signature>>, tasks |-> cleaned, effectTask |-> 0,
              reconnecting |-> reconnecting, lastError |-> lastError,
              disconnects |-> reconcilerDisconnects]
        ELSE [guard |-> <<signature>>,
              tasks |-> Append(cleaned, Task("reconnect", "await_disconnect")),
              effectTask |-> Len(cleaned) + 1,
              reconnecting |-> TRUE,
              lastError |-> <<>>,
              disconnects |-> reconcilerDisconnects + 1]

\* One run of the reconnect effect, after the cleanup of the run before it.
ReconnectEffect(signature, isConnected) ==
    LET cleaned == IF effectTask # 0 /\ tasks[effectTask].pc # "done"
                   THEN [tasks EXCEPT ![effectTask].cancelled = TRUE]
                   ELSE tasks
        returns == [guard |-> <<signature>>, tasks |-> cleaned, effectTask |-> 0,
                    reconnecting |-> reconnecting, lastError |-> lastError,
                    disconnects |-> reconcilerDisconnects]
    IN  IF reconnectGuardRef = <<>>
        THEN returns
        ELSE IF ~isConnected \/ reconnectGuardRef = <<signature>>
        THEN returns
        ELSE [guard |-> <<signature>>,
              tasks |-> Append(cleaned, Task("reconnect", "await_disconnect")),
              effectTask |-> Len(cleaned) + 1,
              reconnecting |-> TRUE,
              lastError |-> <<>>,
              disconnects |-> reconcilerDisconnects + 1]

RunReconnectEffect(signature, isConnected) ==
    LET e == ReconnectEffect(signature, isConnected) IN
    /\ Len(e.tasks) <= MaxTasks
    /\ reconnectGuardRef' = e.guard
    /\ tasks' = e.tasks
    /\ effectTask' = e.effectTask
    /\ lastPass' = <<[stored |-> reconnectGuardRef, signature |-> signature,
                      connected |-> isConnected,
                      calls |-> e.disconnects - reconcilerDisconnects]>>
    /\ reconnecting' = e.reconnecting
    /\ lastError' = e.lastError
    /\ reconcilerDisconnects' = e.disconnects

\* the first render's effects
Mount ==
    /\ ~mounted
    /\ mounted' = TRUE
    /\ healthConnected' = connected
    /\ RunReconnectEffect(sessionSignature(ConfigState), connected)
    /\ UNCHANGED <<riskVars, configVars, connected, liveConnected, callbackStale,
                   configChanges, reconcilerConnects, transportFailed, visionVars, micVars,
                   sceneVars, mediaVars>>

\* A render after the configuration state became c: a new sessionConfig goes to
\* the context, and the reconnect effect runs if the signature is another one.
ChangeConfig(c) ==
    /\ mounted
    /\ ~ContinuationPending
    /\ configChanges < MaxConfigChanges
    /\ c # ConfigState
    /\ configChanges' = configChanges + 1
    /\ activeMode' = c.mode
    /\ sourceLanguage' = c.source
    /\ targetLanguage' = c.target
    /\ activeVoice' = c.voice
    /\ searchEnabled' = c.search
    /\ riskGuardEnabled' = c.guard
    /\ callbackStale' = TRUE
    /\ IF sessionSignature(c) # sessionSignature(ConfigState)
       THEN RunReconnectEffect(sessionSignature(c), connected)
       ELSE UNCHANGED <<reconnectGuardRef, tasks, effectTask, lastPass, reconnecting,
                        lastError, reconcilerDisconnects>>
    /\ UNCHANGED <<now, riskCooldownByType, currentRisk, riskHistory, riskSeq, suggestions,
                   formattedContents, autoDetectedBehavior, autoDetectedReason, events,
                   lastToolCall, lastToolResponse, sendCalls, lastApplied, lastDetect>>
    /\ UNCHANGED <<mounted, connected, healthConnected, liveConnected, reconcilerConnects,
                   transportFailed, visionVars, micVars, sceneVars, mediaVars>>

SetActiveMode ==
    \E mode \in Modes :
        ChangeConfig([ConfigState EXCEPT !.mode = IF activeMode = <<mode>> THEN <<>> ELSE <<mode>>])

SetSourceLanguage == \E l \in Languages : ChangeConfig([ConfigState EXCEPT !.source = l])

SetTargetLanguage == \E l \in Languages : ChangeConfig([ConfigState EXCEPT !.target = l])

SetActiveVoice == \E v \in Voices : ChangeConfig([ConfigState EXCEPT !.voice = v])

ToggleSearch ==
    /\ activeMode \in {<<"GUIDE">>, <<"SHIELD">>, <<"AUTO">>}
    /\ ChangeConfig([ConfigState EXCEPT !.search = ~searchEnabled])

ToggleRiskGuard == ChangeConfig([ConfigState EXCEPT !.guard = ~riskGuardEnabled])


\* the session button, enabled while sessionHealth.reconnecting is false
ToggleConnection ==
    /\ mounted
    /\ ~ContinuationPending
    /\ ~reconnecting
    /\ Len(tasks) < MaxTasks
    /\ lastError' = <<>>
    /\ reconnecting' = TRUE
    /\ tasks' = Append(tasks, Task("toggle", IF connected THEN "await_disconnect"
                                                        ELSE "await_connect"))
    /\ UNCHANGED <<riskVars, mounted, configVars, reconnectGuardRef, connected,
                   healthConnected, liveConnected, callbackStale, effectTask, lastPass,
                   configChanges, reconcilerDisconnects, reconcilerConnects,
                   transportFailed, visionVars, micVars, sceneVars, mediaVars>>

\* the Retry Session button, shown while there is an error or a reconnect
RetrySession ==
    /\ mounted
    /\ ~ContinuationPending
    /\ lastError # <<>> \/ reconnecting
    /\ Len(tasks) < MaxTasks
    /\ lastError' = <<>>
    /\ reconnecting' = TRUE
    /\ tasks' = Append(tasks, Task("retry", IF connected THEN "await_disconnect"
                                                       ELSE "await_connect"))
    /\ UNCHANGED <<riskVars, mounted, configVars, reconnectGuardRef, connected,
                   healthConnected, liveConnected, callbackStale, effectTask, lastPass,
                   configChanges, reconcilerDisconnects, reconcilerConnects,
                   transportFailed, visionVars, micVars, sceneVars, mediaVars>>

\* the transport settles the connect() or disconnect() call task i awaits
Settled(pc, ok) ==
    IF pc = "await_disconnect"
    THEN IF ok THEN "after_disconnect" ELSE "disconnect_failed"
    ELSE IF ok THEN "after_connect" ELSE "connect_failed"

TransportSettles(i, ok) ==
    /\ mounted
    /\ ~ContinuationPending
    /\ tasks[i].pc \in {"await_disconnect", "await_connect"}
    /\ tasks' = [tasks EXCEPT ![i].pc = Settled(tasks[i].pc, ok)]
    /\ liveConnected' = IF ok THEN tasks[i].pc = "await_connect" ELSE liveConnected
    /\ transportFailed' = (transportFailed \/ ~ok)
    /\ UNCHANGED <<riskVars, mounted, configVars, reconnectGuardRef, connected,
                   healthConnected, reconnecting, lastError, callbackStale, effectTask,
                   lastPass, configChanges, reconcilerDisconnects, reconcilerConnects,
                   visionVars, micVars, sceneVars, mediaVars>>

TransportResolves == \E i \in 1..Len(tasks) : TransportSettles(i, TRUE)

TransportRejects == \E i \in 1..Len(tasks) : TransportSettles(i, FALSE)

Finished == [kind |-> "finished", pc |-> "done", cancelled |-> FALSE]

\* a continuation that calls connect() again when a call of retrySession fails
ContinuationRetrying(t) ==
    LET failed == t.pc \in {"disconnect_failed", "connect_failed"}
        goesOn == [task |-> [t EXCEPT !.pc = "await_connect"],
                   reconnecting |-> reconnecting, lastError |-> lastError,
                   connects |-> IF t.kind = "reconnect" THEN 1 ELSE 0]
        skipped == [task |-> Finished, reconnecting |-> reconnecting,
                    lastError |-> lastError, connects |-> 0]
        ends == [task |-> Finished, reconnecting |-> FALSE,
                 lastError |-> IF failed THEN <<"error">> ELSE lastError, connects |-> 0]
    IN  IF t.kind = "reconnect"
        THEN IF t.cancelled THEN skipped
             ELSE IF t.pc = "after_disconnect" THEN goesOn
             ELSE ends
        ELSE IF t.kind = "retry"
        THEN IF t.pc = "after_disconnect" \/ failed THEN goesOn ELSE ends
        ELSE ends

\* what the code after the await of task t does
Continuation(t) ==
    LET failed == t.pc \in {"disconnect_failed", "connect_failed"}
        goesOn == [task |-> [t EXCEPT !.pc = "await_connect"],
                   reconnecting |-> reconnecting, lastError |-> lastError,
                   connects |-> IF t.kind = "reconnect" THEN 1 ELSE 0]
        skipped == [task |-> Finished, reconnecting |-> reconnecting,
                    lastError |-> lastError, connects |-> 0]
        ends == [task |-> Finished, reconnecting |-> FALSE,
                 lastError |-> IF failed THEN <<"error">> ELSE lastError, connects |-> 0]
    IN  IF t.kind = "reconnect"
        THEN IF t.cancelled THEN skipped
             ELSE IF t.pc = "after_disconnect" THEN goesOn
             ELSE ends
        ELSE IF t.kind = "retry"
        THEN IF t.pc = "after_disconnect" THEN goesOn ELSE ends
        ELSE ends

Continue ==
    \E i \in 1..Len(tasks) :
        /\ tasks[i].pc \in {"after_disconnect", "after_connect",
                            "disconnect_failed", "connect_failed"}
        /\ LET k == Continuation(tasks[i]) IN
           /\ tasks' = [tasks EXCEPT ![i] = k.task]
           /\ reconnecting' = k.reconnecting
           /\ lastError' = k.lastError
           /\ reconcilerConnects' = reconcilerConnects + k.connects
        /\ UNCHANGED <<riskVars, mounted, configVars, reconnectGuardRef, connected,
                       healthConnected, liveConnected, callbackStale, effectTask, lastPass,
                       configChanges, reconcilerDisconnects, transportFailed, visionVars,
                       micVars, sceneVars, mediaVars>>

\* a render with the context's new connected flag: the mirror effect and the
\* reconnect effect run
ObserveConnected ==
    /\ mounted
    /\ connected # liveConnected
    /\ connected' = liveConnected
    /\ healthConnected' = liveConnected
    /\ RunReconnectEffect(sessionSignature(ConfigState), liveConnected)
    /\ UNCHANGED <<riskVars, mounted, configVars, liveConnected, callbackStale,
                   configChanges, reconcilerConnects, transportFailed, visionVars, micVars,
                   sceneVars, mediaVars>>

\* a render with the connect callback the context made for its new config:
\* the reconnect effect runs
ObserveCallback ==
    /\ mounted
    /\ callbackStale
    /\ callbackStale' = FALSE
    /\ RunReconnectEffect(sessionSignature(ConfigState), connected)
    /\ UNCHANGED <<riskVars, mounted, configVars, connected, healthConnected,
                   liveConnected, configChanges, reconcilerConnects, transportFailed,
                   visionVars, micVars, sceneVars, mediaVars>>

NextSession ==
    \/ Mount
    \/ SetActiveMode
    \/ SetSourceLanguage
    \/ SetTargetLanguage
    \/ SetActiveVoice
    \/ ToggleSearch
    \/ ToggleRiskGuard
    \/ ToggleConnection
    \/ RetrySession
    \/ TransportResolves
    \/ TransportRejects
    \/ Continue
    \/ ObserveConnected
    \/ ObserveCallback

SpecSession == Init /\ [][NextSession]_vars

(***************************************************************************)
(* The visual pipeline.  useWebcam and useScreenCapture each own one       *)
(* device handle: start() opens it when the device is granted and throws   *)
(* otherwise, stop() closes it.                                            *)
(***************************************************************************)
Sources == {"camera", "screen"}

Alternate(source) == IF source = "camera" THEN "screen" ELSE "camera"

\* selected.start() has settled in some turnOnVision call and the code after
\* the await has not run yet
VisionContinuationPending ==
    \E i \in 1..Len(visionTasks) : visionTasks[i].pc # "acquiring"

RemoveAt(seq, i) == SubSeq(seq, 1, i - 1) \o SubSeq(seq, i + 1, Len(seq))

\* turnOnVision(source) up to its await of selected.start()
TurnOnVision(source) ==
    visionTasks' = Append(visionTasks, [source |-> source, pc |-> "acquiring"])

\* turnOffVision
TurnOffVision ==
    /\ webcamOpen' = FALSE
    /\ screenOpen' = FALSE
    /\ activeStream' = <<>>
    /\ visionEnabled' = FALSE
    /\ UNCHANGED visionTasks

OnVisualToggle ==
    /\ mounted
    /\ ~VisionContinuationPending
    /\ visionOps < MaxVisionOps
    /\ visionOps' = visionOps + 1
    /\ IF visionEnabled
       THEN TurnOffVision
       ELSE /\ TurnOnVision(visualSource)
            /\ UNCHANGED <<webcamOpen, screenOpen, activeStream, visionEnabled>>
    /\ UNCHANGED <<riskVars, mounted, configVars, sessionVars, micVars, sceneVars, mediaVars,
                   lastError, visualSource,
                   permVision>>

OnVisualSourceChange ==
    \E source \in Sources :
        /\ mounted
        /\ ~VisionContinuationPending
        /\ visionOps < MaxVisionOps
        /\ visionOps' = visionOps + 1
        /\ visualSource' = source
        /\ IF visionEnabled THEN TurnOnVision(source) ELSE UNCHANGED visionTasks
        /\ UNCHANGED <<riskVars, mounted, configVars, sessionVars, micVars, sceneVars,
                       mediaVars, lastError, visionEnabled,
                       activeStream, webcamOpen, screenOpen, permVision>>

\* the device of turnOnVision call i is granted: selected.start() resolves
DeviceGranted ==
    \E i \in 1..Len(visionTasks) :
        /\ ~VisionContinuationPending
        /\ visionTasks[i].pc = "acquiring"
        /\ visionTasks' = [visionTasks EXCEPT ![i].pc = "started"]
        /\ webcamOpen' = (webcamOpen \/ visionTasks[i].source = "camera")
        /\ screenOpen' = (screenOpen \/ visionTasks[i].source = "screen")
        /\ UNCHANGED <<riskVars, mounted, configVars, sessionVars, micVars, sceneVars,
                       mediaVars, lastError, visionEnabled,
                       visualSource, activeStream, visionOps, permVision>>

\* the device is refused (a permission error) or fails: selected.start() rejects
DeviceRefused ==
    \E i \in 1..Len(visionTasks), outcome \in {"denied", "failed"} :
        /\ ~VisionContinuationPending
        /\ visionTasks[i].pc = "acquiring"
        /\ visionTasks' = [visionTasks EXCEPT ![i].pc = outcome]
        /\ UNCHANGED <<riskVars, mounted, configVars, sessionVars, micVars, sceneVars,
                       mediaVars, lastError, visionEnabled,
                       visualSource, activeStream, webcamOpen, screenOpen, visionOps,
                       permVision>>

\* startVisionStream after its await, or the catch of turnOnVision
VisionContinue ==
    \E i \in 1..Len(visionTasks) :
        LET t == visionTasks[i] IN
        /\ t.pc # "acquiring"
        /\ visionTasks' = RemoveAt(visionTasks, i)
        /\ IF t.pc = "started"
           THEN /\ webcamOpen' = (webcamOpen /\ Alternate(t.source) # "camera")
                /\ screenOpen' = (screenOpen /\ Alternate(t.source) # "screen")
                /\ activeStream' = <<t.source>>
                /\ visionEnabled' = TRUE
                /\ visualSource' = t.source
                /\ permVision' = "granted"
                /\ lastError' = <<>>
           ELSE /\ permVision' = IF t.pc = "denied" THEN "denied" ELSE permVision
                /\ visionEnabled' = FALSE
                /\ lastError' = <<"error">>
                /\ UNCHANGED <<webcamOpen, screenOpen, activeStream, visualSource>>
        /\ UNCHANGED <<riskVars, mounted, configVars, sessionVars, micVars, sceneVars,
                       mediaVars, visionOps>>

NextVision ==
    \/ Mount
    \/ OnVisualToggle
    \/ OnVisualSourceChange
    \/ DeviceGranted
    \/ DeviceRefused
    \/ VisionContinue

SpecVision == Init /\ [][NextVision]_vars

NextRisk == Mount \/ Tick \/ RiskToolCall \/ RiskContent

SpecRisk == Init /\ [][NextRisk]_vars

(***************************************************************************)
(* Transcript segments of one, two or three words, of every family of      *)
(* heuristic and of none, in every order.                                  *)
(***************************************************************************)
HeuristicWords ==
    {<<"U", "r", "g", "e", "n", "t">>, <<"a", "g", "e", "n", "t">>,
     <<"f", "a", "r", "e">>, <<"9", "0", "0">>, <<"o", "k">>}

Phrase2(a, b) == a \o <<" ">> \o b

HeuristicTranscripts ==
    HeuristicWords
    \cup {Phrase2(a, b) : a \in HeuristicWords, b \in HeuristicWords}
    \cup {Phrase2(a, Phrase2(b, c)) :
              a \in HeuristicWords, b \in HeuristicWords, c \in HeuristicWords}

HeuristicContent ==
    events < MaxEvents /\ \E tx \in HeuristicTranscripts : OnContent(Content(tx, <<>>, <<>>))

NextHeuristic == Mount \/ HeuristicContent

SpecHeuristic == Init /\ [][NextHeuristic]_vars

(***************************************************************************)
(* The risk engine with the risk guard switched off and on between the     *)
(* server events.                                                          *)
(***************************************************************************)
NextSwitch == Mount \/ ToggleRiskGuard \/ RiskToolCall \/ RiskContent

SpecSwitch == Init /\ [][NextSwitch]_vars

(***************************************************************************)
(* Tool-call batches of every kind of invocation.                          *)
(***************************************************************************)
SuggestionArgs(category) ==
    <<[BaseArgs EXCEPT !.category = category, !.title = X, !.detail = X, !.action = X,
                       !.confidence = <<Num(70)>>]>>

\* valid, policy-rejected and malformed invocations of the four functions, and
\* one of a function the console does not know
ToolCalls ==
    {Call("t1", RISK_FUNCTION_NAME, RiskArgs(S_price, S_high, 78)),
     Call("t2", RISK_FUNCTION_NAME, RiskArgs(S_urgency, S_high, 50)),
     Call("t3", RISK_FUNCTION_NAME, <<>>),
     Call("t4", SUGGESTION_FUNCTION_NAME, SuggestionArgs(S_scam)),
     Call("t6", MODE_SIGNAL_FUNCTION_NAME, <<[BaseArgs EXCEPT !.behavior = S_GUIDE, !.reason = X]>>),
     Call("t7", FORMATTED_CONTENT_FUNCTION_NAME,
          <<[BaseArgs EXCEPT !.title = X, !.markdown = X, !.language = X]>>),
     Call("t8", "unknown_function", <<>>)}

RECURSIVE Batches(_)
Batches(n) ==
    IF n = 0 THEN {<<>>}
    ELSE LET shorter == Batches(n - 1) IN
         shorter \cup {Append(b, c) : b \in {b \in shorter : Len(b) = n - 1}, c \in ToolCalls}

ToolBatches == Batches(MaxBatch)

ToolCall == events < MaxToolEvents /\ \E calls \in ToolBatches : OnToolCall(calls)

NextTool == Mount \/ ToggleRiskGuard \/ ToolCall

SpecTool == Init /\ [][NextTool]_vars

(***************************************************************************)
(* The risk engine with a history one short of full: HistoryCap - 1        *)
(* signals accepted by applyRiskSignal, CooldownMs apart, the last one     *)
(* CooldownMs before the clock's start.                                    *)
(***************************************************************************)
SeedCount == HistoryCap - 1

SeedSignal(k) ==
    [id |-> k, type |-> "price", level |-> "low", confidence |-> 50,
     timestamp |-> StartMs - (SeedCount - k + 1) * CooldownMs, source |-> "model"]

Seed(rs, k) ==
    LET r == applyRiskSignal(rs, SeedSignal(k), SeedSignal(k).timestamp, TRUE)
    IN  [cooldown |-> r.cooldown, current |-> r.current, history |-> r.history]

\* the engine after the seeds k, k + 1, ... SeedCount, from rs on
RECURSIVE SeededFrom(_, _)
SeededFrom(rs, k) ==
    IF k > SeedCount THEN rs
    ELSE LET next == Seed(rs, k) IN
         IF Len(next.history) = k THEN SeededFrom(next, k + 1) ELSE rs

Seeded == SeededFrom(EmptyEngine, 1)

\* the rest of the component after its first effects
MountedConsole ==
    /\ mounted = TRUE
    /\ activeMode = <<"SPOT">>
    /\ sourceLanguage = "kn-IN"
    /\ targetLanguage = "hi-IN"
    /\ activeVoice = "Kore"
    /\ searchEnabled = TRUE
    /\ selectedSceneId = DEMO_SCENES[1].id
    /\ sceneContext = DEMO_SCENES[1].scriptHint
    /\ sceneOps = 0
    /\ reconnectGuardRef = <<sessionSignature(ConfigState)>>
    /\ connected = FALSE
    /\ healthConnected = FALSE
    /\ reconnecting = FALSE
    /\ lastError = <<>>
    /\ permVision = "unknown"
    /\ liveConnected = FALSE
    /\ callbackStale = FALSE
    /\ tasks = <<>>
    /\ effectTask = 0
    /\ lastPass = <<[stored |-> <<>>, signature |-> sessionSignature(ConfigState),
                     connected |-> FALSE, calls |-> 0]>>
    /\ configChanges = 0
    /\ reconcilerDisconnects = 0
    /\ reconcilerConnects = 0
    /\ transportFailed = FALSE
    /\ visionEnabled = FALSE
    /\ visualSource = "camera"
    /\ activeStream = <<>>
    /\ webcamOpen = FALSE
    /\ screenOpen = FALSE
    /\ visionTasks = <<>>
    /\ visionOps = 0
    /\ micEnabled = FALSE
    /\ permMic = "unknown"
    /\ micProbes = <<>>
    /\ micOps = 0
    /\ recorderOn = FALSE
    /\ recorderStarts = <<>>
    /\ dataListener = FALSE
    /\ audioDeps = <<>>
    /\ lastChunk = <<>>
    /\ micDenied = <<>>
    /\ frameDeps = <<>>
    /\ frameLoops = <<>>
    /\ srcObject = <<>>
    /\ videoDims = FALSE
    /\ canvasCtx = TRUE
    /\ lastFrame = <<>>
    /\ frameTicks = 0

InitFull == InitEngine(Seeded, SeedCount) /\ MountedConsole

NextRiskFull == Tick \/ RiskToolCall \/ RiskContent

SpecRiskFull == InitFull /\ [][NextRiskFull]_vars

(***************************************************************************)
(* The console with a session some toggleConnection has opened: connect()  *)
(* has resolved, the render with connected = true has happened and its     *)
(* pass of the reconnect effect has found the signature stored.  No call   *)
(* is in flight.                                                           *)
(***************************************************************************)
OpenConsole ==
    /\ mounted = TRUE
    /\ activeMode = <<"SPOT">>
    /\ sourceLanguage = "kn-IN"
    /\ targetLanguage = "hi-IN"
    /\ activeVoice = "Kore"
    /\ searchEnabled = TRUE
    /\ selectedSceneId = DEMO_SCENES[1].id
    /\ sceneContext = DEMO_SCENES[1].scriptHint
    /\ sceneOps = 0
    /\ reconnectGuardRef = <<sessionSignature(ConfigState)>>
    /\ connected = TRUE
    /\ healthConnected = TRUE
    /\ reconnecting = FALSE
    /\ lastError = <<>>
    /\ permVision = "unknown"
    /\ liveConnected = TRUE
    /\ callbackStale = FALSE
    /\ tasks = <<>>
    /\ effectTask = 0
    /\ lastPass = <<[stored |-> <<sessionSignature(ConfigState)>>,
                     signature |-> sessionSignature(ConfigState),
                     connected |-> TRUE, calls |-> 0]>>
    /\ configChanges = 0
    /\ reconcilerDisconnects = 0
    /\ reconcilerConnects = 0
    /\ transportFailed = FALSE
    /\ visionEnabled = FALSE
    /\ visualSource = "camera"
    /\ activeStream = <<>>
    /\ webcamOpen = FALSE
    /\ screenOpen = FALSE
    /\ visionTasks = <<>>
    /\ visionOps = 0
    /\ micEnabled = FALSE
    /\ permMic = "unknown"
    /\ micProbes = <<>>
    /\ micOps = 0
    /\ recorderOn = FALSE
    /\ recorderStarts = <<>>
    /\ dataListener = FALSE
    /\ audioDeps = <<>>
    /\ lastChunk = <<>>
    /\ micDenied = <<>>
    /\ frameDeps = <<>>
    /\ frameLoops = <<>>
    /\ srcObject = <<>>
    /\ videoDims = FALSE
    /\ canvasCtx = TRUE
    /\ lastFrame = <<>>
    /\ frameTicks = 0

InitOpen == InitEngine(EmptyEngine, 0) /\ OpenConsole

NextOpenSession ==
    \/ SetActiveMode
    \/ SetSourceLanguage
    \/ SetTargetLanguage
    \/ SetActiveVoice
    \/ ToggleSearch
    \/ ToggleRiskGuard
    \/ ToggleConnection
    \/ RetrySession
    \/ TransportResolves
    \/ TransportRejects
    \/ Continue
    \/ ObserveConnected
    \/ ObserveCallback

SpecOpenSession == InitOpen /\ [][NextOpenSession]_vars

(***************************************************************************)
(* The open session under configuration changes alone, every transport     *)
(* call succeeding: the only calls are those of the reconciler.            *)
(***************************************************************************)
NextReconfigure ==
    \/ SetActiveMode
    \/ SetSourceLanguage
    \/ SetTargetLanguage
    \/ SetActiveVoice
    \/ ToggleSearch
    \/ ToggleRiskGuard
    \/ TransportResolves
    \/ Continue
    \/ ObserveConnected
    \/ ObserveCallback

SpecReconfigure == InitOpen /\ [][NextReconfigure]_vars

(***************************************************************************)
(* The microphone switch.  getUserMedia grants or refuses the probe of     *)
(* enableMic.                                                              *)
(***************************************************************************)
\* what applyScenePreset does about vision after its await of enableMic
SceneVisionStep(then) ==
    IF then = "turnOnVision"
    THEN /\ visualSource' = "camera"
         /\ TurnOnVision("camera")
         /\ UNCHANGED <<webcamOpen, screenOpen, activeStream, visionEnabled>>
    ELSE IF then = "turnOffVision"
    THEN TurnOffVision /\ UNCHANGED visualSource
    ELSE UNCHANGED <<visualSource, visionTasks, webcamOpen, screenOpen, activeStream,
                     visionEnabled>>

\* onMicToggle, with enableMic up to its await
OnMicToggle ==
    /\ mounted
    /\ micOps < MaxMicOps
    /\ micOps' = micOps + 1
    /\ IF micEnabled
       THEN micEnabled' = FALSE /\ UNCHANGED micProbes
       ELSE IF permMic = "granted"
       THEN micEnabled' = TRUE /\ UNCHANGED micProbes
       ELSE micProbes' = Append(micProbes, "done") /\ UNCHANGED micEnabled
    /\ UNCHANGED <<riskVars, mounted, configVars, sessionVars, lastError, visionVars, permMic,
                   sceneVars, mediaVars>>

\* the probe is granted: enableMic after its await, and then its caller
MicProbeGranted ==
    \E i \in 1..Len(micProbes) :
        /\ ~VisionContinuationPending
        /\ micProbes' = RemoveAt(micProbes, i)
        /\ permMic' = "granted"
        /\ lastError' = <<>>
        /\ micEnabled' = TRUE
        /\ SceneVisionStep(micProbes[i])
        /\ UNCHANGED <<riskVars, mounted, configVars, sessionVars, visionOps, permVision,
                       micOps, sceneVars, mediaVars>>

\* the probe is refused (a permission error) or fails: the catch of enableMic,
\* and then its caller
MicProbeRefused ==
    \E i \in 1..Len(micProbes), outcome \in {"denied", "failed"} :
        /\ ~VisionContinuationPending
        /\ micProbes' = RemoveAt(micProbes, i)
        /\ permMic' = IF outcome = "denied" THEN "denied" ELSE permMic
        /\ micEnabled' = FALSE
        /\ lastError' = <<"error">>
        /\ micDenied' = IF outcome = "denied"
                        THEN <<[at |-> "probe", permMic |-> "denied", micEnabled |-> FALSE,
                                lastError |-> <<"error">>]>>
                        ELSE micDenied
        /\ SceneVisionStep(micProbes[i])
        /\ UNCHANGED <<riskVars, mounted, configVars, sessionVars, visionOps, permVision,
                       micOps, sceneVars, recorderOn, recorderStarts,
                       dataListener, audioDeps, lastChunk, frameVars>>

getLanguage(id, fallback) == IF id \in Languages THEN id ELSE fallback

\* applyScenePreset up to its first await that does not settle at once
ApplyScenePreset(scene) ==
    LET c == [ConfigState EXCEPT !.mode = <<scene.mode>>,
                                 !.source = getLanguage(scene.sourceLanguage, sourceLanguage),
                                 !.target = getLanguage(scene.targetLanguage, targetLanguage),
                                 !.search = scene.requiresSearch,
                                 !.scene = scene.scriptHint]
        e == IF sessionSignature(c) # sessionSignature(ConfigState)
             THEN ReconnectEffect(sessionSignature(c), connected)
             ELSE [guard |-> reconnectGuardRef, tasks |-> tasks, effectTask |-> effectTask,
                   reconnecting |-> reconnecting, lastError |-> lastError,
                   disconnects |-> reconcilerDisconnects]
        then == IF scene.requiresVision THEN "turnOnVision"
                ELSE IF visionEnabled THEN "turnOffVision"
                ELSE "done"
    IN  /\ mounted
        /\ ~ContinuationPending
        /\ ~VisionContinuationPending
        /\ sceneOps < MaxSceneOps
        /\ Len(e.tasks) <= MaxTasks
        /\ sceneOps' = sceneOps + 1
        /\ selectedSceneId' = scene.id
        /\ sceneContext' = scene.scriptHint
        /\ activeMode' = c.mode
        /\ sourceLanguage' = c.source
        /\ targetLanguage' = c.target
        /\ searchEnabled' = c.search
        /\ lastError' = <<>>
        /\ callbackStale' = (callbackStale \/ c # ConfigState)
        /\ reconnectGuardRef' = e.guard
        /\ tasks' = e.tasks
        /\ effectTask' = e.effectTask
        /\ lastPass' = IF sessionSignature(c) # sessionSignature(ConfigState)
                       THEN <<[stored |-> reconnectGuardRef,
                               signature |-> sessionSignature(c),
                               connected |-> connected,
                               calls |-> e.disconnects - reconcilerDisconnects]>>
                       ELSE lastPass
        /\ reconnecting' = e.reconnecting
        /\ reconcilerDisconnects' = e.disconnects
        /\ IF micEnabled
           THEN SceneVisionStep(then) /\ UNCHANGED <<micEnabled, micProbes>>
           ELSE IF permMic = "granted"
           THEN SceneVisionStep(then) /\ micEnabled' = TRUE /\ UNCHANGED micProbes
           ELSE /\ micProbes' = Append(micProbes, then)
                /\ UNCHANGED <<micEnabled, visualSource, visionTasks, webcamOpen, screenOpen,
                               activeStream, visionEnabled>>
        /\ UNCHANGED <<riskVars, mounted, activeVoice, connected, healthConnected,
                       liveConnected, configChanges, reconcilerConnects, transportFailed,
                       visionOps, permVision, permMic, micOps, mediaVars>>

SelectScene == \E k \in 1..Len(DEMO_SCENES) : ApplyScenePreset(DEMO_SCENES[k])

(***************************************************************************)
(* The scene presets with the devices they ask for.                        *)
(***************************************************************************)
NextScene ==
    \/ Mount
    \/ SelectScene
    \/ MicProbeGranted
    \/ MicProbeRefused
    \/ DeviceGranted
    \/ DeviceRefused
    \/ VisionContinue

SpecScene == Init /\ [][NextScene]_vars

(***************************************************************************)
(* The risk engine under everything else the console does: the risk guard  *)
(* switch, mode and scene changes, the session opened, closed and          *)
(* reconnected.                                                            *)
(***************************************************************************)
\* a batch of one invocation the policy accepts
GuardToolCall ==
    /\ events < MaxEvents
    /\ OnToolCall(<<Call("g1", RISK_FUNCTION_NAME, RiskArgs(S_urgency, S_high, 78))>>)

\* a transcript the heuristics find a signal in
GuardContent == events < MaxEvents /\ OnContent(Content(TxTicket750, <<>>, <<>>))

\* the mode button of SHIELD
GuardModeChange ==
    ChangeConfig([ConfigState EXCEPT !.mode = IF activeMode = <<"SHIELD">> THEN <<>>
                                              ELSE <<"SHIELD">>])

\* the scene button of the last demo scene
GuardSceneChange == ApplyScenePreset(DEMO_SCENES[Len(DEMO_SCENES)])

NextGuard ==
    \/ Mount
    \/ GuardToolCall
    \/ GuardContent
    \/ ToggleRiskGuard
    \/ GuardModeChange
    \/ GuardSceneChange
    \/ ToggleConnection
    \/ TransportResolves
    \/ Continue
    \/ ObserveConnected
    \/ ObserveCallback

SpecGuard == Init /\ [][NextGuard]_vars

(***************************************************************************)
(* The session together with the media switches, every device and          *)
(* transport call succeeding.                                              *)
(***************************************************************************)
NextReconcile ==
    \/ Mount
    \/ SetTargetLanguage
    \/ ToggleConnection
    \/ TransportResolves
    \/ Continue
    \/ ObserveConnected
    \/ ObserveCallback
    \/ OnVisualToggle
    \/ OnVisualSourceChange
    \/ DeviceGranted
    \/ VisionContinue
    \/ OnMicToggle
    \/ MicProbeGranted

SpecReconcile == Init /\ [][NextReconcile]_vars

(***************************************************************************)
(* The audio pipeline.  The recorder is a capture object: start() acquires *)
(* the microphone and is granted or refused, stop() releases it.           *)
(***************************************************************************)
\* what the audio effect depends on, as the current render reads it
AudioDeps == <<[connected |-> connected, micEnabled |-> micEnabled]>>

\* the state has changed under the audio effect: the render's effects are due
AudioEffectPending == mounted /\ audioDeps # AudioDeps

\* the cleanup of the audio effect's last run
CancelStarts(starts) == [i \in 1..Len(starts) |-> [starts[i] EXCEPT !.cancelled = TRUE]]

\* one run of the audio effect after the cleanup of the run before it
AudioEffectRun(isConnected, enabled) ==
    IF isConnected /\ enabled
    THEN [starts |-> Append(CancelStarts(recorderStarts), [cancelled |-> FALSE]),
          listener |-> TRUE, on |-> recorderOn]
    ELSE [starts |-> CancelStarts(recorderStarts), listener |-> FALSE, on |-> FALSE]

\* a render whose connected or micEnabled is a new one: the audio effect runs
AudioEffect ==
    /\ AudioEffectPending
    /\ LET e == AudioEffectRun(connected, micEnabled) IN
       /\ recorderStarts' = e.starts
       /\ dataListener' = e.listener
       /\ recorderOn' = e.on
    /\ audioDeps' = AudioDeps
    /\ UNCHANGED <<riskVars, mounted, configVars, sessionVars, lastError, visionVars, micVars,
                   sceneVars, lastChunk, micDenied, frameVars>>

\* audioRecorder.start() of startRecorder run i resolves
RecorderStartGranted ==
    \E i \in 1..Len(recorderStarts) :
        /\ recorderStarts' = RemoveAt(recorderStarts, i)
        /\ recorderOn' = TRUE
        /\ permMic' = IF recorderStarts[i].cancelled THEN permMic ELSE "granted"
        /\ UNCHANGED <<riskVars, mounted, configVars, sessionVars, lastError, visionVars,
                       micEnabled, micProbes, micOps, sceneVars, dataListener, audioDeps,
                       lastChunk, micDenied, frameVars>>

\* audioRecorder.start() of startRecorder run i rejects: its catch
RecorderStartRefused ==
    \E i \in 1..Len(recorderStarts), outcome \in {"denied", "failed"} :
        /\ recorderStarts' = RemoveAt(recorderStarts, i)
        /\ permMic' = IF outcome = "denied" THEN "denied" ELSE permMic
        /\ IF recorderStarts[i].cancelled
           THEN UNCHANGED <<micEnabled, lastError>>
           ELSE micEnabled' = FALSE /\ lastError' = <<"error">>
        /\ micDenied' = IF outcome = "denied"
                        THEN <<[at |-> "recorder", permMic |-> "denied",
                                micEnabled |-> micEnabled', lastError |-> lastError']>>
                        ELSE micDenied
        /\ UNCHANGED <<riskVars, mounted, configVars, sessionVars, visionVars, micProbes,
                       micOps, sceneVars, recorderOn, dataListener, audioDeps, lastChunk,
                       frameVars>>

\* the recorder emits "data": onData sends the chunk to the session
RecorderData ==
    /\ recorderOn
    /\ dataListener
    /\ lastChunk' = <<[connected |-> connected, micEnabled |-> micEnabled,
                       liveConnected |-> liveConnected]>>
    /\ UNCHANGED <<riskVars, mounted, configVars, sessionVars, lastError, visionVars, micVars,
                   sceneVars, recorderOn, recorderStarts, dataListener, audioDeps, micDenied,
                   frameVars>>

\* The session and the microphone.  A render's effects run before the next
\* event is handled.
NextAudio ==
    \/ Mount
    \/ AudioEffect
    \/ ~AudioEffectPending /\ OnMicToggle
    \/ ~AudioEffectPending /\ MicProbeGranted
    \/ ~AudioEffectPending /\ MicProbeRefused
    \/ ~AudioEffectPending /\ ToggleConnection
    \/ ~AudioEffectPending /\ TransportResolves
    \/ ~AudioEffectPending /\ Continue
    \/ ~AudioEffectPending /\ ObserveConnected
    \/ ~AudioEffectPending /\ RecorderStartGranted
    \/ ~AudioEffectPending /\ RecorderStartRefused
    \/ ~AudioEffectPending /\ RecorderData

SpecAudio == Init /\ [][NextAudio]_vars

(***************************************************************************)
(* The frame loop.  The browser runs a requested animation frame callback  *)
(* at its next frame and a timeout callback no sooner than its delay; the  *)
(* video element has dimensions once its stream's metadata has loaded.     *)
(***************************************************************************)
\* what the frame effect depends on, as the current render reads it
FrameDeps ==
    <<[connected |-> connected, visionEnabled |-> visionEnabled, activeStream |-> activeStream]>>

\* the state has changed under the frame effect: the render's effects are due
FrameEffectPending == mounted /\ frameDeps # FrameDeps

\* the loops left after removing those of the positions in gone
Without(loops, gone) ==
    LET keep(i) == Cardinality({j \in 1..i : j \notin gone})
        n == keep(Len(loops))
    IN  [k \in 1..n |-> loops[CHOOSE i \in 1..Len(loops) : i \notin gone /\ keep(i) = k]]

\* the cleanup of the frame effect's last run: clearTimeout(timeoutId) removes
\* the timeout its loop has set; a callback requested through
\* requestAnimationFrame stays requested
FrameCleanup(loops) ==
    LET cleared == {i \in 1..Len(loops) : loops[i].current /\ loops[i].pc = "timer"}
        left == Without(loops, cleared)
    IN  [i \in 1..Len(left) |-> [left[i] EXCEPT !.current = FALSE]]

\* a render whose activeStream, connected or visionEnabled is a new one: the
\* srcObject effect and the frame effect run
FrameEffect ==
    /\ FrameEffectPending
    /\ frameDeps' = FrameDeps
    /\ IF frameDeps = <<>> \/ frameDeps[1].activeStream # activeStream
       THEN srcObject' = activeStream /\ videoDims' = FALSE
       ELSE UNCHANGED <<srcObject, videoDims>>
    /\ frameLoops' =
          IF connected /\ visionEnabled /\ activeStream # <<>>
          THEN Append(FrameCleanup(frameLoops), [pc |-> "raf", due |-> 0, current |-> TRUE])
          ELSE FrameCleanup(frameLoops)
    /\ UNCHANGED <<riskVars, mounted, configVars, sessionVars, lastError, visionVars, micVars,
                   sceneVars, audioVars, canvasCtx, lastFrame, frameTicks>>

\* sendFrame of loop i runs: its animation frame has come or its timeout is due.
\* The callback reads connected and visionEnabled of the render that made it,
\* both true.
SendFrame ==
    \E i \in 1..Len(frameLoops) :
        LET loop == frameLoops[i] IN
        /\ loop.pc = "timer" => now >= loop.due
        /\ IF ~canvasCtx
           THEN frameLoops' = Without(frameLoops, {i}) /\ UNCHANGED lastFrame
           ELSE /\ frameLoops' = [frameLoops EXCEPT ![i].pc = "timer",
                                                    ![i].due = now + FrameIntervalMs]
                /\ IF videoDims
                   THEN lastFrame' =
                           <<[at |-> now,
                              previous |-> IF lastFrame = <<>> THEN <<>> ELSE <<lastFrame[1].at>>,
                              connected |-> connected, visionEnabled |-> visionEnabled,
                              activeStream |-> activeStream, current |-> loop.current]>>
                   ELSE UNCHANGED lastFrame
        /\ UNCHANGED <<riskVars, mounted, configVars, sessionVars, lastError, visionVars,
                       micVars, sceneVars, audioVars, frameDeps, srcObject, videoDims,
                       canvasCtx, frameTicks>>

\* the video element has loaded the metadata of its stream
VideoLoaded ==
    /\ srcObject # <<>>
    /\ ~videoDims
    /\ videoDims' = TRUE
    /\ UNCHANGED <<riskVars, mounted, configVars, sessionVars, lastError, visionVars, micVars,
                   sceneVars, audioVars, frameDeps, frameLoops, srcObject, canvasCtx,
                   lastFrame, frameTicks>>

\* getContext("2d") gives null from now on
CanvasContextLost ==
    /\ mounted
    /\ canvasCtx
    /\ canvasCtx' = FALSE
    /\ UNCHANGED <<riskVars, mounted, configVars, sessionVars, lastError, visionVars, micVars,
                   sceneVars, audioVars, frameDeps, frameLoops, srcObject, videoDims,
                   lastFrame, frameTicks>>

\* the frame clock
FrameTick ==
    /\ mounted
    /\ frameTicks < MaxFrameTicks
    /\ frameTicks' = frameTicks + 1
    /\ now' = now + FrameTickMs
    /\ UNCHANGED <<riskGuardEnabled, riskCooldownByType, currentRisk, riskHistory,
                   riskSeq, suggestions, formattedContents, autoDetectedBehavior,
                   autoDetectedReason, events, lastToolCall, lastToolResponse, sendCalls,
                   lastApplied, lastDetect>>
    /\ UNCHANGED <<mounted, configVars, sessionVars, lastError, visionVars, micVars,
                   sceneVars, audioVars, frameDeps, frameLoops, srcObject, videoDims,
                   canvasCtx, lastFrame>>

\* The session and the visual input.  A render's effects run before the next
\* event is handled.
NextFrame ==
    \/ Mount
    \/ FrameEffect
    \/ ~FrameEffectPending /\ ToggleConnection
    \/ ~FrameEffectPending /\ TransportResolves
    \/ ~FrameEffectPending /\ Continue
    \/ ~FrameEffectPending /\ ObserveConnected
    \/ ~FrameEffectPending /\ OnVisualToggle
    \/ ~FrameEffectPending /\ OnVisualSourceChange
    \/ ~FrameEffectPending /\ DeviceGranted
    \/ ~FrameEffectPending /\ VisionContinue
    \/ ~FrameEffectPending /\ VideoLoaded
    \/ ~FrameEffectPending /\ CanvasContextLost
    \/ ~FrameEffectPending /\ SendFrame
    \/ ~FrameEffectPending /\ FrameTick

SpecFrame == Init /\ [][NextFrame]_vars

(***************************************************************************)
(* Properties.                                                             *)
(***************************************************************************)
Engine == [cooldown |-> riskCooldownByType, current |-> currentRisk, history |-> riskHistory]

First(S) == CHOOSE i \in S : \A j \in S : i <= j

InHistory(signal) == \E k \in 1..Len(riskHistory) : riskHistory[k] = signal

\* C1: two accepted signals of one risk type, from the model or from the
\* heuristics, are at least the cooldown interval apart, and the type's cooldown
\* clock reads the acceptance time of its newest accepted signal.  (Fewer than
\* HistoryCap signals are accepted in a run of SpecRisk, so the history holds
\* every accepted signal.)
C1_CooldownInvariant ==
    /\ \A i, j \in 1..Len(riskHistory) :
          (i < j /\ riskHistory[i].type = riskHistory[j].type)
              => riskHistory[i].timestamp - riskHistory[j].timestamp >= 18000
    /\ \A type \in RiskTypes :
          LET same == {i \in 1..Len(riskHistory) : riskHistory[i].type = type} IN
          riskCooldownByType[type] =
              IF same = {} THEN 0 ELSE riskHistory[First(same)].timestamp
    /\ \A i \in 1..Len(lastApplied) :
          lastApplied[i].accepted
              => riskCooldownByType[lastApplied[i].signal.type] = lastApplied[i].signal.timestamp

\* two accepted signals of one type, one of each source, exactly the cooldown apart
C1_Witness ==
    \E i, j \in 1..Len(riskHistory) :
        /\ i < j
        /\ riskHistory[i].type = riskHistory[j].type
        /\ riskHistory[i].source # riskHistory[j].source
        /\ riskHistory[i].timestamp - riskHistory[j].timestamp = 18000

\* C2: the reply to a tool-call batch of N >= 1 invocations is sent once and
\* holds N responses, the i-th with the id and the function name of the i-th
\* invocation.
C2_ProtocolCompleteness ==
    Len(lastToolCall) >= 1
        => /\ sendCalls = 1
           /\ Len(lastToolResponse) = Len(lastToolCall)
           /\ \A i \in 1..Len(lastToolCall) :
                 /\ lastToolResponse[i].id = lastToolCall[i].id
                 /\ lastToolResponse[i].name = lastToolCall[i].name

\* a batch of an unknown function, then a risk signal the policy rejects
C2_Witness ==
    /\ Len(lastToolCall) = 2
    /\ lastToolCall[1].name = "unknown_function"
    /\ lastToolCall[2].name = RISK_FUNCTION_NAME
    /\ Len(lastApplied) = 1
    /\ ~lastApplied[1].accepted
    /\ Len(lastToolResponse) = 2

\* C3: at most one of the camera's and the screen's device handles is open.
C3_MutualExclusion == ~(webcamOpen /\ screenOpen)

HeuristicAccepted(applied) ==
    {i \in 1..Len(applied) : applied[i].accepted /\ applied[i].signal.source = "heuristic"}

\* C4: while the current risk is a model signal of level medium or high with
\* timestamp T, a heuristic signal accepted before T + 45 s goes to the history
\* and leaves the current risk as it is; one accepted at or after T + 45 s
\* becomes the current risk exactly if its level is at least the current level.
C4_ProtectionWindow ==
    [][(/\ events' # events
        /\ currentRisk # <<>>
        /\ currentRisk[1].source = "model"
        /\ currentRisk[1].level \in {"medium", "high"})
       => LET T == currentRisk[1].timestamp
              heuristic == HeuristicAccepted(lastApplied')
          IN  /\ (now < T + 45000 /\ heuristic # {})
                    => /\ currentRisk' = currentRisk
                       /\ \A i \in heuristic :
                             \E k \in 1..Len(riskHistory') :
                                 riskHistory'[k] = lastApplied'[i].signal
              /\ (now >= T + 45000 /\ Len(lastApplied') = 1 /\ heuristic = {1})
                    => currentRisk' =
                          IF RISK_LEVEL_PRIORITY[lastApplied'[1].signal.level]
                                 >= RISK_LEVEL_PRIORITY[currentRisk[1].level]
                          THEN <<lastApplied'[1].signal>>
                          ELSE currentRisk]_vars

\* a heuristic signal of the level of the current model signal, accepted
\* less than 45 s after it, is in the history and not current
C4_Witness ==
    /\ currentRisk # <<>>
    /\ currentRisk[1].source = "model"
    /\ currentRisk[1].level = "medium"
    /\ \E k \in 1..Len(riskHistory) :
          /\ riskHistory[k].source = "heuristic"
          /\ riskHistory[k].level = "medium"
          /\ riskHistory[k].timestamp > currentRisk[1].timestamp
          /\ riskHistory[k].timestamp < currentRisk[1].timestamp + 45000

\* C5: a run of the reconnect effect that finds its signature stored makes no
\* disconnect() and no connect() call, whatever made the effect run; every
\* reconnect comes from a configuration change of its own.
C5_IdempotentReconciliation ==
    /\ lastPass # <<>>
          => (lastPass[1].stored = <<lastPass[1].signature>> => lastPass[1].calls = 0)
    /\ reconcilerDisconnects <= configChanges
    /\ reconcilerConnects <= reconcilerDisconnects

\* the effect ran again with the stored signature, connected, after a reconnect
C5_Witness ==
    /\ lastPass # <<>>
    /\ lastPass[1].stored = <<lastPass[1].signature>>
    /\ lastPass[1].connected
    /\ reconcilerDisconnects = 1

\* nothing is in flight and every render has happened
Quiescent ==
    /\ \A i \in 1..Len(tasks) : tasks[i].pc = "done"
    /\ connected = liveConnected
    /\ ~callbackStale

\* C6: one change of mode, language or voice while connected, every transport
\* call succeeding: the reconciler calls disconnect() once and connect() once,
\* and the session ends connected with reconnecting = false.
C6_ReconnectOnce ==
    (/\ Quiescent
     /\ Len(tasks) = 2
     /\ configChanges = 1
     /\ riskGuardEnabled
     /\ searchEnabled
     /\ reconcilerDisconnects = 1
     /\ ~transportFailed)
        => /\ reconcilerConnects = 1
           /\ healthConnected
           /\ ~reconnecting

Candidates ==
    [id : {0}, type : RiskTypes \cup {"other"}, level : RiskLevels,
     confidence : {50, 61, 62, 77, 78}, timestamp : {now}, source : {"model", "heuristic"}]

\* C7: applyRiskSignal returns false and leaves the engine as it is for a
\* candidate of a type that is not enabled, of level medium with confidence
\* below 0.62, or of level high with confidence below 0.78; the confidence of
\* a candidate of level low never rejects it.
C7_PolicyGate ==
    \A c \in Candidates :
        LET r == applyRiskSignal(Engine, c, now, riskGuardEnabled)
            typeEnabled == c.type \in {"price", "misinformation", "urgency"}
            below == \/ c.level = "medium" /\ c.confidence < 62
                     \/ c.level = "high" /\ c.confidence < 78
        IN  /\ (~typeEnabled \/ below)
                  => /\ ~r.accepted
                     /\ r.cooldown = riskCooldownByType
                     /\ r.current = currentRisk
                     /\ r.history = riskHistory
            /\ (/\ c.level = "low"
                /\ typeEnabled
                /\ riskGuardEnabled
                /\ now - riskCooldownByType[c.type] >= 18000)
                  => r.accepted

\* a signal of level high with confidence 0.5 was rejected and nothing is recorded
C7_Witness ==
    /\ \E i \in 1..Len(lastApplied) :
          /\ lastApplied[i].signal.level = "high"
          /\ lastApplied[i].signal.confidence = 50
          /\ ~lastApplied[i].accepted
    /\ riskHistory = <<>>
    /\ currentRisk = <<>>

\* C8: the history holds at most 24 signals, newest first; a signal accepted
\* while it holds 24 goes to the front and the last one goes.
C8_HistoryCap ==
    /\ [](/\ Len(riskHistory) <= 24
          /\ \A i, j \in 1..Len(riskHistory) :
                i < j => /\ riskHistory[i].id > riskHistory[j].id
                         /\ riskHistory[i].timestamp >= riskHistory[j].timestamp)
    /\ [][(/\ events' # events
           /\ Len(riskHistory) = 24
           /\ Len(lastApplied') = 1
           /\ lastApplied'[1].accepted)
          => riskHistory' = <<lastApplied'[1].signal>> \o SubSeq(riskHistory, 1, 23)]_vars

\* the history is full and its first signal has gone
C8_Witness ==
    /\ Len(riskHistory) = 24
    /\ riskHistory[24].id = 2
    /\ riskHistory[1].id > 24

\* C9: the current risk is null or a signal applyRiskSignal returned true
\* for: it changes only to a signal accepted in that step, and never to one
\* that was rejected.
C9_CurrentIsAccepted ==
    /\ [](currentRisk = <<>> \/ InHistory(currentRisk[1]))
    /\ [][/\ currentRisk' # currentRisk
             => \E i \in 1..Len(lastApplied') :
                    /\ lastApplied'[i].accepted
                    /\ currentRisk' = <<lastApplied'[i].signal>>
          /\ events' # events
             => \A i \in 1..Len(lastApplied') :
                    ~lastApplied'[i].accepted => currentRisk' # <<lastApplied'[i].signal>>]_vars

\* a batch with an accepted signal, now current, and a rejected one
C9_Witness ==
    /\ currentRisk # <<>>
    /\ \E i, j \in 1..Len(lastApplied) :
          /\ lastApplied[i].accepted
          /\ currentRisk = <<lastApplied[i].signal>>
          /\ ~lastApplied[j].accepted

Detected(text, type, level, confidence) ==
    \A i \in 1..Len(lastDetect) :
        lastDetect[i].text = text
            => /\ lastDetect[i].result # <<>>
               /\ lastDetect[i].result[1].type = type
               /\ lastDetect[i].result[1].level = level
               /\ lastDetect[i].result[1].confidence = confidence
               /\ lastDetect[i].result[1].source = "heuristic"

\* C10: detectHeuristicRisk gives urgency/high/0.81 for "pay now or police",
\* price/low/0.56 for "ticket costs 750 rupees" and nothing for "thank you".
C10_HeuristicScenarios ==
    /\ Detected(TxPayNowOrPolice, "urgency", "high", 81)
    /\ Detected(TxTicket750, "price", "low", 56)
    /\ \A i \in 1..Len(lastDetect) :
          lastDetect[i].text = TxThankYou => lastDetect[i].result = <<>>

\* C11: a handler run on a batch of N >= 1 invocations calls sendToolResponse
\* once, with the N responses in that call; a run on an empty batch calls it
\* not at all.
C11_SingleReply ==
    /\ sendCalls = IF Len(lastToolCall) = 0 THEN 0 ELSE 1
    /\ sendCalls = 1 => Len(lastToolResponse) = Len(lastToolCall)

\* a batch of two invocations, both accepted, answered in one call
C11_Witness ==
    /\ Len(lastToolCall) = 2
    /\ sendCalls = 1
    /\ Len(lastToolResponse) = 2
    /\ lastToolResponse[1].accepted
    /\ lastToolResponse[2].accepted

UnknownCalls ==
    {Call("u", name, args) :
        name \in {"unknown_function", "", "emit_risk", "EMIT_RISK_SIGNAL"},
        args \in {<<>>, RiskArgs(S_price, S_high, 78)}}

\* C12: an invocation of a name that is none of the four function names gets
\* accepted = false with the reason "Unsupported function.", and the risk
\* state, the suggestions, the formatted contents and the auto-detected
\* behaviour stay as they are.
C12_UnknownFunction ==
    /\ \A call \in UnknownCalls :
          HandleCall(HandlerStart, call, now, riskGuardEnabled)
              = [HandlerStart EXCEPT !.responses =
                     <<[id |-> call.id, name |-> call.name, accepted |-> FALSE,
                        reason |-> "Unsupported function."]>>]
    /\ \A i \in 1..Len(lastToolResponse) :
          lastToolResponse[i].name
                \notin {RISK_FUNCTION_NAME, SUGGESTION_FUNCTION_NAME,
                        MODE_SIGNAL_FUNCTION_NAME, FORMATTED_CONTENT_FUNCTION_NAME}
             => /\ ~lastToolResponse[i].accepted
                /\ lastToolResponse[i].reason = "Unsupported function."

\* a batch of one unknown function was answered and nothing is recorded
C12_Witness ==
    /\ Len(lastToolCall) = 1
    /\ lastToolCall[1].name = "unknown_function"
    /\ lastToolResponse = <<[id |-> lastToolCall[1].id, name |-> "unknown_function",
                             accepted |-> FALSE, reason |-> "Unsupported function."]>>
    /\ currentRisk = <<>>
    /\ riskHistory = <<>>
    /\ suggestions = <<>>
    /\ formattedContents = <<>>
    /\ autoDetectedBehavior = <<>>

\* invocations of the four functions that leave out a required field or
\* give an enumerated field a value outside its set
MalformedCalls ==
    {Call("m1", RISK_FUNCTION_NAME, <<[RiskArgs(S_price, S_high, 78)[1] EXCEPT !.cue = <<>>]>>),
     Call("m2", RISK_FUNCTION_NAME, RiskArgs(S_price, X, 78)),
     Call("m3", SUGGESTION_FUNCTION_NAME, <<[SuggestionArgs(S_scam)[1] EXCEPT !.title = <<>>]>>),
     Call("m4", SUGGESTION_FUNCTION_NAME, SuggestionArgs(X)),
     Call("m5", MODE_SIGNAL_FUNCTION_NAME, <<[BaseArgs EXCEPT !.reason = X]>>),
     Call("m6", MODE_SIGNAL_FUNCTION_NAME, <<[BaseArgs EXCEPT !.behavior = X, !.reason = X]>>),
     Call("m7", FORMATTED_CONTENT_FUNCTION_NAME,
          <<[BaseArgs EXCEPT !.contentType = S_menu, !.markdown = X, !.language = X]>>),
     Call("m8", FORMATTED_CONTENT_FUNCTION_NAME,
          <<[BaseArgs EXCEPT !.contentType = X, !.title = X, !.markdown = X, !.language = X]>>)}

MalformedReasons ==
    {"Malformed risk signal payload.", "Malformed suggestion payload.",
     "Malformed formatted content payload.", "Malformed mode signal payload."}

\* C13: with the risk guard on, an invocation of one of the four functions
\* that leaves out a required field or gives an enumerated field a value
\* outside its set gets accepted = false with a malformed reason, and the
\* handler's state stays as it is.
C13_MalformedRejected ==
    riskGuardEnabled
        => \A call \in MalformedCalls :
              LET h == HandleCall(HandlerStart, call, now, riskGuardEnabled) IN
              /\ Len(h.responses) = 1
              /\ ~h.responses[1].accepted
              /\ h.responses[1].reason \in MalformedReasons
              /\ [h EXCEPT !.responses = <<>>] = HandlerStart

HasSearch(config) ==
    \E i \in 1..Len(config.tools) : config.tools[i] = [googleSearch |-> <<>>]

AnyMode == {<<>>} \cup {<<mode>> : mode \in NativeModes}

C15_ReconnectTrigger ==
    /\ [](/\ lastPass # <<>>
             => (lastPass[1].calls = 1
                    <=> /\ lastPass[1].stored # <<>>
                        /\ lastPass[1].stored # <<lastPass[1].signature>>
                        /\ lastPass[1].connected)
          /\ lastPass # <<>> => lastPass[1].calls \in {0, 1}
          /\ mounted => reconnectGuardRef = <<sessionSignature(ConfigState)>>)
    /\ [][(visionVars' # visionVars \/ micVars' # micVars)
             => /\ reconcilerDisconnects' = reconcilerDisconnects
                /\ reconcilerConnects' = reconcilerConnects
                /\ tasks' = tasks
                /\ lastPass' = lastPass]_vars

\* the configuration changed while disconnected, the user connected and
\* switched the mic and the screen on: no reconnect
C15_Witness ==
    /\ configChanges >= 1
    /\ connected
    /\ ~reconnecting
    /\ micEnabled
    /\ visionEnabled
    /\ visualSource = "screen"
    /\ reconcilerDisconnects = 0
    /\ lastPass[1].connected

\* C16: once Scene B (Echo) is the selected preset and no device acquisition
\* is pending, the mode is ECHO, vision is off and no visual stream is active.
C16_EchoPresetSettles ==
    (/\ selectedSceneId = "scene-b-echo"
     /\ micProbes = <<>>
     /\ visionTasks = <<>>)
        => /\ activeMode = <<"ECHO">>
           /\ ~visionEnabled
           /\ activeStream = <<>>

\* the policy gate as the claims state it: the guard is on, the type is an
\* enabled one and the confidence reaches the threshold of the level
PolicyGateOpen(c) ==
    /\ riskGuardEnabled
    /\ c.type \in {"price", "misinformation", "urgency"}
    /\ c.level = "medium" => c.confidence >= 62
    /\ c.level = "high" => c.confidence >= 78

\* C17 as stated: every signal that passes the policy gate is prepended to the
\* history.
C17_PolicyPassRecorded ==
    \A c \in Candidates :
        LET r == applyRiskSignal(Engine, c, now, riskGuardEnabled) IN
        PolicyGateOpen(c) => (r.history # <<>> /\ r.history[1] = c)

\* C17: a signal that passes the policy gate is prepended to the history
\* exactly if its type's cooldown has elapsed, whether or not it replaces the
\* current risk; inside the cooldown nothing is recorded.
C17_BothGatesRecorded ==
    /\ \A c \in Candidates :
          LET r == applyRiskSignal(Engine, c, now, riskGuardEnabled) IN
          PolicyGateOpen(c)
              => IF now - riskCooldownByType[c.type] >= 18000
                 THEN /\ r.accepted
                      /\ r.history = IF Len(riskHistory) < 24
                                     THEN <<c>> \o riskHistory
                                     ELSE <<c>> \o SubSeq(riskHistory, 1, 23)
                 ELSE ~r.accepted /\ r.history = riskHistory
    /\ \A i \in 1..Len(lastApplied) :
          lastApplied[i].accepted => InHistory(lastApplied[i].signal)

\* a model signal of level low was accepted after a current risk of level high
\* of another type: it heads the history and the current risk stays
C17_Witness ==
    /\ Len(lastApplied) = 1
    /\ lastApplied[1].accepted
    /\ lastApplied[1].signal.source = "model"
    /\ lastApplied[1].signal.level = "low"
    /\ riskHistory[1] = lastApplied[1].signal
    /\ currentRisk # <<>>
    /\ currentRisk[1].level = "high"
    /\ currentRisk[1].type # lastApplied[1].signal.type

\* the replacement rule as the claim states it, for the current slot c and an
\* accepted signal n at time t
ReplacesCurrent(c, n, t) ==
    \/ c = <<>>
    \/ n.source = "model" /\ c[1].source = "heuristic"
    \/ /\ RISK_LEVEL_PRIORITY[n.level] >= RISK_LEVEL_PRIORITY[c[1].level]
       /\ ~(/\ n.source = "heuristic"
            /\ c[1].source = "model"
            /\ c[1].level \in {"medium", "high"}
            /\ t - c[1].timestamp < 45000)

\* C18: after a signal n is accepted with current risk c, the current slot is n
\* exactly if c is null, or n is a model signal and c a heuristic one, or the
\* level of n is at least the level of c and the 45 s protection of a model
\* signal of level medium or high against a heuristic one does not apply;
\* otherwise the slot stays c.
C18_ReplacementRule ==
    /\ [](\A n \in Candidates :
             LET r == applyRiskSignal(Engine, n, now, riskGuardEnabled) IN
             r.accepted
                 => /\ ReplacesCurrent(currentRisk, n, now) <=> r.current = <<n>>
                    /\ ~ReplacesCurrent(currentRisk, n, now) <=> r.current = currentRisk)
    /\ [][(/\ events' # events
           /\ Len(lastApplied') = 1
           /\ lastApplied'[1].accepted)
          => currentRisk' = IF ReplacesCurrent(currentRisk, lastApplied'[1].signal, now)
                            THEN <<lastApplied'[1].signal>>
                            ELSE currentRisk]_vars

\* a model signal of level low has replaced a heuristic signal of level medium
C18_Witness ==
    /\ Len(riskHistory) >= 2
    /\ currentRisk = <<riskHistory[1]>>
    /\ riskHistory[1].source = "model"
    /\ riskHistory[1].level = "low"
    /\ riskHistory[2].source = "heuristic"
    /\ riskHistory[2].level = "medium"
    /\ Len(lastApplied) = 1
    /\ lastApplied[1].signal = riskHistory[1]

\* well-formed emit_risk_signal invocations
WellFormedRiskCalls == {call \in RiskCalls : call.args # <<>>}

\* C19: the response to a well-formed emit_risk_signal invocation has
\* accepted = true exactly if its signal was put at the head of the history;
\* a signal filtered by a confidence threshold or by the cooldown is answered
\* accepted = false with a reason that is neither a malformed reason nor the
\* unsupported reason.
C19_RiskResponse ==
    /\ \A call \in WellFormedRiskCalls :
          LET h == HandleCall(HandlerStart, call, now, riskGuardEnabled)
              signal == parseRiskSignalFromArgs(call.args, riskSeq + 1, now)[1]
              added == /\ h.history # riskHistory
                       /\ h.history[1] = signal
              filtered ==
                  /\ riskGuardEnabled
                  /\ \/ signal.level = "medium" /\ signal.confidence < 62
                     \/ signal.level = "high" /\ signal.confidence < 78
                     \/ now - riskCooldownByType[signal.type] < 18000
          IN  /\ Len(h.responses) = 1
              /\ h.responses[1].accepted <=> added
              /\ ~added => h.history = riskHistory
              /\ filtered
                    => /\ ~h.responses[1].accepted
                       /\ h.responses[1].reason
                             \notin MalformedReasons \cup {"Unsupported function."}
    /\ \A i \in 1..Len(lastToolResponse) :
          (lastToolResponse[i].name = RISK_FUNCTION_NAME /\ lastToolResponse[i].accepted)
              => \E k \in 1..Len(riskHistory) : riskHistory[k].source = "model"

\* the second of two well-formed signals of one type in a batch, above its
\* threshold, was answered as filtered by the cooldown the first one started
C19_Witness ==
    /\ Len(lastToolCall) = 2
    /\ Len(lastApplied) = 2
    /\ lastApplied[1].accepted
    /\ lastApplied[2].signal.level = "high"
    /\ lastApplied[2].signal.confidence = 78
    /\ ~lastApplied[2].accepted
    /\ lastToolResponse[1].accepted
    /\ lastToolResponse[2] = [id |-> lastToolCall[2].id, name |-> RISK_FUNCTION_NAME,
                              accepted |-> FALSE, reason |-> "Filtered by policy/cooldown."]
    /\ riskHistory = <<lastApplied[1].signal>>
    /\ riskHistory[1].type = lastApplied[2].signal.type

\* C20: a signal applyRiskSignal rejects leaves the current risk, the history
\* and the cooldown clock of every type as they are: a step whose signals are
\* all rejected changes none of them, and a type's clock never reads a time
\* other than that of an accepted signal.
C20_RejectionFrame ==
    /\ [](\A c \in Candidates :
             LET r == applyRiskSignal(Engine, c, now, riskGuardEnabled) IN
             ~r.accepted => /\ r.current = currentRisk
                            /\ r.history = riskHistory
                            /\ \A type \in RiskTypes :
                                  r.cooldown[type] = riskCooldownByType[type])
    /\ [](\A type \in RiskTypes :
             \/ riskCooldownByType[type] = 0
             \/ \E k \in 1..Len(riskHistory) :
                   /\ riskHistory[k].type = type
                   /\ riskHistory[k].timestamp = riskCooldownByType[type])
    /\ [][(/\ events' # events
           /\ \A i \in 1..Len(lastApplied') : ~lastApplied'[i].accepted)
          => /\ currentRisk' = currentRisk
             /\ riskHistory' = riskHistory
             /\ riskCooldownByType' = riskCooldownByType]_vars

\* a heuristic signal was rejected 9 s into the cooldown of its type, whose
\* clock still reads the time of the accepted signal
C20_Witness ==
    /\ \E i \in 1..Len(lastApplied) :
          /\ ~lastApplied[i].accepted
          /\ lastApplied[i].signal.source = "heuristic"
          /\ lastApplied[i].signal.timestamp = now
          /\ riskCooldownByType[lastApplied[i].signal.type] = now - 9000
    /\ \A i \in 1..Len(lastApplied) : ~lastApplied[i].accepted
    /\ Len(riskHistory) = 1

\* C21: the cooldown clocks of the three types are independent: applying a
\* signal leaves the clocks of the other types as they are, a signal that
\* passes the policy gate is accepted exactly if its own type's clock is at
\* least 18 s back, whatever the other clocks read, and a step moves only the
\* clocks of the types it accepted a signal of.
C21_IndependentClocks ==
    /\ [](\A c \in Candidates :
             LET r == applyRiskSignal(Engine, c, now, riskGuardEnabled) IN
             /\ \A type \in RiskTypes \ {c.type} :
                   r.cooldown[type] = riskCooldownByType[type]
             /\ PolicyGateOpen(c)
                   => (r.accepted <=> now - riskCooldownByType[c.type] >= 18000))
    /\ [][\A type \in RiskTypes :
             riskCooldownByType'[type] # riskCooldownByType[type]
                 => \E i \in 1..Len(lastApplied') :
                        /\ lastApplied'[i].accepted
                        /\ lastApplied'[i].signal.type = type]_vars

\* a batch of one signal of each type, all three accepted, at a time when
\* nothing had been accepted before
C21_Witness ==
    /\ Len(lastToolCall) = 3
    /\ Len(lastApplied) = 3
    /\ \A i \in 1..3 : lastApplied[i].accepted
    /\ {lastApplied[i].signal.type : i \in 1..3} = RiskTypes
    /\ \A i \in 1..3 : lastToolResponse[i].accepted
    /\ Len(riskHistory) = 3
    /\ \A type \in RiskTypes : riskCooldownByType[type] = now

\* C22: whenever the state has been rendered, the recorder captures only
\* while the session is connected and the mic is enabled, and every chunk went
\* to the session in such a state.
C22_RecorderGated ==
    /\ (recorderOn /\ ~AudioEffectPending) => (connected /\ micEnabled)
    /\ lastChunk # <<>> => (lastChunk[1].connected /\ lastChunk[1].micEnabled)

\* C23: a microphone acquisition refused with a permission error, in the
\* probe of enableMic or in the recorder's start, leaves the mic permission
\* denied, micEnabled false and lastError set.
C23_DeniedHandled ==
    micDenied # <<>> => /\ micDenied[1].permMic = "denied"
                        /\ ~micDenied[1].micEnabled
                        /\ micDenied[1].lastError # <<>>

\* C24: every video frame went to the session in a state where the session
\* was connected, vision enabled and a stream active.
C24_FrameGated ==
    lastFrame # <<>> => /\ lastFrame[1].connected
                        /\ lastFrame[1].visionEnabled
                        /\ lastFrame[1].activeStream # <<>>

\* C25: whenever the state has been rendered, every scheduled sendFrame
\* callback belongs to the frame effect's last run, and there is at most one.
C25_NoOrphanedCallback ==
    ~FrameEffectPending
        => /\ \A i \in 1..Len(frameLoops) : frameLoops[i].current
           /\ Len(frameLoops) <= 1

\* C26: two consecutive video frames are sent at least 1 s apart.
C26_FrameInterval ==
    (lastFrame # <<>> /\ lastFrame[1].previous # <<>>)
        => lastFrame[1].at - lastFrame[1].previous[1] >= 1000

\* C27: while the rendered state is connected with vision enabled and a stream
\* active, a sendFrame callback of the frame effect's last run is scheduled,
\* whatever sends were skipped.
C27_LoopKeepsGoing ==
    (/\ ~FrameEffectPending
     /\ connected
     /\ visionEnabled
     /\ activeStream # <<>>)
        => \E i \in 1..Len(frameLoops) : frameLoops[i].current

\* C28: once the calls of a reconnect the reconciler started have settled and
\* every render has happened, sessionHealth.reconnecting is false, whether the
\* calls succeeded or failed and whether or not the connected flag or the
\* connect callback changed while the reconnect was in flight.
C28_ReconnectSettles ==
    (Quiescent /\ reconcilerDisconnects >= 1) => ~reconnecting

\* the continuation of a connect() or disconnect() call that was rejected runs
FailureHandled ==
    \E i \in 1..Len(tasks) :
        /\ tasks[i].pc \in {"disconnect_failed", "connect_failed"}
        /\ tasks'[i].pc = "done"

\* C29: when the code after a rejected connect() or disconnect() call has run,
\* of toggleConnection, retrySession or a reconnect of the reconciler,
\* sessionHealth.lastError is not null.
C29_FailureReported == [][FailureHandled => lastError' # <<>>]_vars

\* the step makes a connect() or disconnect() call
CallIssued ==
    \/ Len(tasks') > Len(tasks)
    \/ \E i \in 1..Len(tasks) : tasks[i].pc # "await_connect" /\ tasks'[i].pc = "await_connect"

\* the step is an invocation of toggleConnection or retrySession, or a change
\* of the configuration that made the reconciler start a reconnect
StartedByUser ==
    /\ Len(tasks') = Len(tasks) + 1
    /\ \/ tasks'[Len(tasks')].kind \in {"toggle", "retry"}
       \/ tasks'[Len(tasks')].kind = "reconnect" /\ configChanges' = configChanges + 1

\* the step is the connect() that follows a disconnect() that resolved
GoesOnAfterSuccess ==
    /\ Len(tasks') = Len(tasks)
    /\ \E i \in 1..Len(tasks) : tasks[i].pc = "after_disconnect" /\ tasks'[i].pc = "await_connect"

C31_ConvergesToLatest ==
    Quiescent => /\ liveConnected
                 /\ reconcilerConnects = reconcilerDisconnects

\* C32: a reconnect is not cancelled in flight.  With no call rejected, every
\* reconnect whose disconnect() has resolved and whose continuation has run
\* has called connect().
C32_ReconnectNotCancelled ==
    (~transportFailed /\ \A i \in 1..Len(tasks) : tasks[i].pc \notin {"await_disconnect", "after_disconnect"})
        => reconcilerConnects = reconcilerDisconnects

\* the code after selected.start() runs for an acquisition that resolved while
\* a later turnOnVision call is in flight
StaleCompletion ==
    /\ Len(visionTasks') < Len(visionTasks)
    /\ \E i \in 1..(Len(visionTasks) - 1) : visionTasks[i].pc = "started"

\* C33: the completion of a device acquisition that a later request has
\* superseded is a no-op: it sets neither the active stream nor visionEnabled.
C33_StaleCompletionNoOp ==
    [][StaleCompletion => (activeStream' = activeStream /\ visionEnabled' = visionEnabled)]_vars

\* C34: while visionEnabled is false and no acquisition is in flight, neither
\* device handle is open and the active stream is null.
C34_NoLeakedHandle ==
    (~visionEnabled /\ visionTasks = <<>>)
        => (~webcamOpen /\ ~screenOpen /\ activeStream = <<>>)

\* C35: at most one connect() call is in flight at a time.
C35_OneConnectInFlight ==
    Cardinality({i \in 1..Len(tasks) : tasks[i].pc = "await_connect"}) <= 1

MatchesUrgency(text) ==
    \E k \in 1..Len(urgencyKeywords) : Includes(ToLowerCase(Trim(text)), urgencyKeywords[k])

MatchesMisinformation(text) ==
    \E k \in 1..Len(misinformationKeywords) :
        Includes(ToLowerCase(Trim(text)), misinformationKeywords[k])

MatchesPrice(text) ==
    /\ \E k \in 1..Len(priceHints) : Includes(ToLowerCase(Trim(text)), priceHints[k])
    /\ highAmount(ToLowerCase(Trim(text)))

\* the type of the family of highest priority that matches, <<>> for none
FirstFamily(text) ==
    IF MatchesUrgency(text) THEN <<"urgency">>
    ELSE IF MatchesMisinformation(text) THEN <<"misinformation">>
    ELSE IF MatchesPrice(text) THEN <<"price">>
    ELSE <<>>

\* C36: detectHeuristicRisk gives at most one signal for a segment, of the
\* first family that matches in the order urgency, misinformation, price, and
\* none when no family matches.
C36_FirstFamilyOnly ==
    \A i \in 1..Len(lastDetect) :
        LET d == lastDetect[i] IN
        /\ Len(d.result) <= 1
        /\ [k \in 1..Len(d.result) |-> d.result[k].type] = FirstFamily(d.text)

\* a segment with an urgency keyword and a price pattern gave the urgency signal
C36_Witness ==
    \E i \in 1..Len(lastDetect) :
        /\ MatchesUrgency(lastDetect[i].text)
        /\ MatchesPrice(lastDetect[i].text)
        /\ ~MatchesMisinformation(lastDetect[i].text)
        /\ lastDetect[i].result # <<>>
        /\ lastDetect[i].result[1].type = "urgency"

\* C37: no step makes a non-null current risk null, and no step shortens the
\* risk history: neither the risk guard switch, nor a mode or scene change,
\* nor the session closing, opening or reconnecting, nor a server event.
C37_RiskNeverCleared ==
    [][/\ currentRisk # <<>> => currentRisk' # <<>>
       /\ Len(riskHistory') >= Len(riskHistory)]_vars

\* a current risk is shown with the risk guard disabled, the mode and the
\* scene changed and a reconnect of the session behind it
C37_Witness ==
    /\ currentRisk # <<>>
    /\ Len(riskHistory) >= 1
    /\ ~riskGuardEnabled
    /\ reconcilerDisconnects >= 1
    /\ sceneOps >= 1

\* the engine's part of a handler record is the engine as it stands
EngineUntouched(h) ==
    /\ h.current = currentRisk
    /\ h.history = riskHistory
    /\ h.cooldown = riskCooldownByType

\* C38: while the risk guard is disabled, the handler of no tool-call batch
\* and of no content event changes the current risk, the history or a cooldown
\* clock, and every emit_risk_signal invocation is answered accepted = false.
C38_DisabledGuardInert ==
    ~riskGuardEnabled =>
        /\ \A calls \in RiskBatches :
               LET h == HandleCalls(HandlerStart, calls, 1, now, riskGuardEnabled) IN
               /\ EngineUntouched(h)
               /\ Len(h.responses) = Len(calls)
               /\ \A k \in 1..Len(h.responses) : ~h.responses[k].accepted
        /\ \A content \in ContentEvents :
               LET h1 == MaybeTranscript(HandlerStart, content.input, now, riskGuardEnabled)
                   h2 == MaybeTranscript(h1, content.output, now, riskGuardEnabled)
                   h3 == MaybeTranscript(h2, Trim(content.text), now, riskGuardEnabled)
               IN  EngineUntouched(h3)
        /\ \A k \in 1..Len(lastToolResponse) :
               lastToolResponse[k].reason = "Risk guard disabled."
                   => ~lastToolResponse[k].accepted

\* a risk was accepted, the guard was disabled, and a batch that came then
\* was answered by the disabled guard
C38_Witness ==
    /\ ~riskGuardEnabled
    /\ currentRisk # <<>>
    /\ lastToolResponse # <<>>
    /\ lastToolResponse[1].reason = "Risk guard disabled."
    /\ ~lastToolResponse[1].accepted

\* C39: when a step replaces the current risk, the level of the new one is at
\* least the level of the old one, unless a model signal replaces a heuristic
\* one; a model signal of level high is replaced by a model signal of level
\* high alone.
C39_SeverityMonotone ==
    [][(currentRisk # <<>> /\ currentRisk' # currentRisk)
          => /\ currentRisk' # <<>>
             /\ \/ RISK_LEVEL_PRIORITY[currentRisk'[1].level]
                       >= RISK_LEVEL_PRIORITY[currentRisk[1].level]
                \/ currentRisk'[1].source = "model" /\ currentRisk[1].source = "heuristic"
             /\ (currentRisk[1].source = "model" /\ currentRisk[1].level = "high")
                    => (currentRisk'[1].source = "model" /\ currentRisk'[1].level = "high")]_vars

\* a model signal of level high has replaced a model signal of level high
C39_Witness ==
    /\ Len(riskHistory) >= 2
    /\ Len(lastApplied) = 1
    /\ lastApplied[1].accepted
    /\ currentRisk = <<lastApplied[1].signal>>
    /\ currentRisk[1].source = "model"
    /\ currentRisk[1].level = "high"
    /\ riskHistory[2].source = "model"
    /\ riskHistory[2].level = "high"
    /\ riskHistory[2].type # currentRisk[1].type

====
